---- MODULE Spec2Model ----
(***************************************************************************)
(* dalapy: the generic repository engine (src/src/dalapy/repo.py,          *)
(* spec.py, env.py) over TinyDB.                                           *)
(*   Spec      one repository, driven through the RepoAPI flows in a       *)
(*             single environment                                          *)
(*   SpecData  the example project's DataAPI (products and systems) with   *)
(*             one caller                                                  *)
(*   SpecRace  create_system / update_system flow by flow, with a second   *)
(*             caller on the same environment                              *)
(*   SpecLock  two processes, each with its own handle and cache, on one   *)
(*             db_path and lock_path                                       *)
(*   SpecFile  the write of the file piece by piece, with a reader and a   *)
(*             crash                                                       *)
(*   SpecCatalog  the DataAPI's catalogue queries and update_product over  *)
(*             products with sku, price and version                        *)
(*   SpecLoad  the YAML and config loaders, record by record, and          *)
(*             load_system_from_yaml step by step                          *)
(*   SpecApi   the DataAPI's creates and updates of products and systems,  *)
(*             with no delete                                              *)
(*   SpecLive  SpecLock's processes on a lock file that exists, with the   *)
(*             fairness of a FileLock that is eventually acquired          *)
(*                                                                         *)
(* Encoding of Python values.                                              *)
(*   str            a tuple of text pieces; field values are tuples of     *)
(*                  single characters (<<"A","b">> is "Ab"), "" is <<>>,   *)
(*                  error codes are tuples of tokens                       *)
(*                  (<<"unique_violation:", "name">>).                     *)
(*   None           per type, as TLC compares values of one type only:     *)
(*                  None for an Optional[str] is the tuple <<"None">>,     *)
(*                  distinct from every str above; NoId for an             *)
(*                  Optional[int] (ids are positive); NoDoc for a missing  *)
(*                  document.                                              *)
(*   dataclass/dict a record with the fields id, name, email (a System:     *)
(*                  id, name, product_ids).                                *)
(*   TinyDB table   the sequence of its documents in iteration order       *)
(*                  (documents are kept in insertion order; doc_ids only   *)
(*                  grow, so a new document is always last).               *)
(***************************************************************************)
EXTENDS Integers, Sequences, FiniteSets, TLC

\* ------------------------------------------------------------------ bounds
MaxId == 2

\* ------------------------------------------------------- values and types
None == <<"None">>
NoId == 0
NoDoc == [none |-> TRUE]

Ids == 1..MaxId

\* User.name / Product.sku: a required str.  Two values differ only in case.
NameVals == { <<"A", "b">>, <<"A", "B">>, <<"c">> }

\* User.email: Optional[str] = None
EmailVals == { None, <<"e">> }

Fields == {"id", "name", "email"}

\* The validated entity objects callers can construct.
Objs == [id : Ids, name : NameVals, email : EmailVals]

\* returns.io.IOSuccess / IOFailure
IOSuccess(v) == [tag |-> "IOSuccess", value |-> v]
IOFailure(e) == [tag |-> "IOFailure", value |-> e]

id_exists == <<"id_exists">>
not_found == <<"not_found">>

\* str.lower() on one character (ASCII letters of the value sets)
lower_char(c) ==
    CASE c = "A" -> "a"
      [] c = "B" -> "b"
      [] c = "C" -> "c"
      [] c = "E" -> "e"
      [] OTHER -> c

\* str(value).lower()
lower(s) == [i \in DOMAIN s |-> lower_char(s[i])]

\* Python truthiness of an Optional[str]: None and "" are falsy.
truthy(v) == v # None /\ v # <<>>

\* ------------------------------------------------------ spec.py: RepoSpec
UniqueRule(field, nocase, allow_none) ==
    [field |-> field, nocase |-> nocase, allow_none |-> allow_none]

\* A custom validator is a callable (env, tbl, obj, exclude_id) -> Optional[str].
\* The validators considered return a fixed value for a candidate without an
\* email and None otherwise; the value ranges over the kinds of Optional[str]:
\* None, the empty string, a non-empty code.
ValidatorReturns == { None, <<>>, <<"email_required">> }

Validators == { <<"validator", c>> : c \in ValidatorReturns }

CallValidator(v, rows, obj, exclude_id) ==
    IF obj.email = None THEN v[2] ELSE None

RepoSpec(table_name, unique, validator) ==
    [table_name |-> table_name, unique |-> unique, validator |-> validator]

\* example_project/repositories.py
USER_SPEC == RepoSpec("users", << UniqueRule("name", TRUE, TRUE) >>, None)

\* PRODUCT_SPEC: a case-sensitive rule on the required str field (sku)
PRODUCT_SPEC == RepoSpec("products", << UniqueRule("name", FALSE, TRUE) >>, None)

\* The specs the engine is exercised with: the two specs of the repository,
\* specs with two rules and with allow_none = False, and the user spec with
\* each validator.
SpecConfigs ==
    { USER_SPEC, PRODUCT_SPEC,
      RepoSpec("users", << UniqueRule("name", TRUE, TRUE),
                           UniqueRule("email", FALSE, TRUE) >>, None),
      RepoSpec("users", << UniqueRule("email", FALSE, FALSE),
                           UniqueRule("name", FALSE, TRUE) >>, None) }
    \cup { RepoSpec("users", << UniqueRule("name", TRUE, TRUE) >>, v) : v \in Validators }

\* ----------------------------------------------------- spec.py: validate
\* dict.get(key): None when the key is missing
DictGet(row, key) == IF key \in DOMAIN row THEN row[key] ELSE None

\* faulty variant: the value is lower-cased whether or not the rule is case-insensitive
_norm_AlwaysLower(rule, value) ==
    IF value = None THEN None ELSE lower(value)

_norm(rule, value) ==
    IF value = None THEN None
    ELSE IF rule.nocase THEN lower(value) ELSE value

\* faulty variant: the rows are compared on their raw values, the rule's nocase
\* normalization forgotten
RuleViolated_RawCompare(rows, rule, obj, exclude_id) ==
    LET val == DictGet(obj, rule.field)
    IN  /\ ~(val = None /\ rule.allow_none)
        /\ \E i \in DOMAIN rows :
              /\ ~(exclude_id # NoId /\ DictGet(rows[i], "id") = exclude_id)
              /\ DictGet(rows[i], rule.field) = val

\* faulty variant: a null value skips the rule whether or not the rule allows null
RuleViolated_NullAlwaysExempt(rows, rule, obj, exclude_id) ==
    LET val == _norm(rule, DictGet(obj, rule.field))
    IN  /\ val # None
        /\ \E i \in DOMAIN rows :
              /\ ~(exclude_id # NoId /\ DictGet(rows[i], "id") = exclude_id)
              /\ _norm(rule, DictGet(rows[i], rule.field)) = val

\* The inner loop of validate for one rule: some row other than exclude_id
\* holds the candidate's normalized value.
RuleViolated(rows, rule, obj, exclude_id) ==
    LET val == _norm(rule, DictGet(obj, rule.field))
    IN  /\ ~(val = None /\ rule.allow_none)
        /\ \E i \in DOMAIN rows :
              /\ ~(exclude_id # NoId /\ DictGet(rows[i], "id") = exclude_id)
              /\ _norm(rule, DictGet(rows[i], rule.field)) = val

RECURSIVE UniqueLoop_LastViolation(_, _, _, _, _)
\* faulty variant: the loop runs through every rule and the last violation wins
UniqueLoop_LastViolation(rows, unique, k, obj, exclude_id) ==
    IF k > Len(unique) THEN None
    ELSE LET rest == UniqueLoop_LastViolation(rows, unique, k + 1, obj, exclude_id)
         IN  IF rest # None THEN rest
             ELSE IF RuleViolated(rows, unique[k], obj, exclude_id)
                  THEN <<"unique_violation:", unique[k].field>>
                  ELSE None

RECURSIVE UniqueLoop(_, _, _, _, _)
\* for rule in spec.unique, from rule k on: the first violation is returned
UniqueLoop(rows, unique, k, obj, exclude_id) ==
    IF k > Len(unique) THEN None
    ELSE IF RuleViolated(rows, unique[k], obj, exclude_id)
         THEN <<"unique_violation:", unique[k].field>>
         ELSE UniqueLoop(rows, unique, k + 1, obj, exclude_id)

validate(rows, rspec, obj, exclude_id) ==
    LET uerr == UniqueLoop(rows, rspec.unique, 1, obj, exclude_id)
    IN  IF uerr # None THEN uerr
        ELSE IF rspec.validator # None
             THEN LET err == CallValidator(rspec.validator, rows, obj, exclude_id)
                  IN  IF truthy(err) THEN err ELSE None
             ELSE None

\* ------------------------------------------- pydantic TypeAdapter, JSON
\* RepoSpec.adapter = TypeAdapter(Model): the declared fields of the model of
\* the spec's table (example_project/models.py)
SystemFields == {"id", "name", "product_ids"}

\* Product, with the fields the catalogue queries of the DataAPI read
ProductFields == {"id", "sku", "price", "version"}

adapter(rspec) ==
    IF "adapter" \in DOMAIN rspec THEN rspec.adapter
    ELSE IF rspec.table_name = "systems" THEN SystemFields ELSE Fields

\* faulty variant: the dumped dict leaves the id out
dump_python_WithoutId(rspec, obj) == [f \in adapter(rspec) \ {"id"} |-> obj[f]]

\* adapter.dump_python(obj): the dict of the dataclass fields
dump_python(rspec, obj) == [f \in adapter(rspec) |-> obj[f]]

\* adapter.validate_python(doc): the dataclass built from the declared fields
\* (extra='ignore' drops any other key)
validate_python(rspec, doc) == [f \in adapter(rspec) |-> doc[f]]

\* JSONStorage: json.dumps / json.loads of the documents.  A number and a str
\* are written as themselves (so is a list of ints); None is written as null
\* and read back as None.
JsonNull == <<"null">>

Numeric == {"id", "product_ids", "price"}

to_json(k, v) ==
    IF k \in Numeric THEN v ELSE IF v = None THEN JsonNull ELSE v

\* faulty variant: null is read back as it was written
from_json_KeepsNull(k, v) == v

from_json(k, v) ==
    IF k \in Numeric THEN v ELSE IF v = JsonNull THEN None ELSE v

json_dumps(rows) ==
    [i \in DOMAIN rows |-> [k \in DOMAIN rows[i] |-> to_json(k, rows[i][k])]]

json_loads(text) ==
    [i \in DOMAIN text |-> [k \in DOMAIN text[i] |-> from_json(k, text[i][k])]]

\* ------------------------------------------------------ tinydb.table.Table
\* Query: q.id == v / where(field) == v  (a document without the field never matches)
QueryEq(field, value) == [field |-> field, value |-> value]

\* isinstance(v, str) for the value of a field: ids and id lists are not
\* strings, None is not a string
is_str(field, v) == field \notin {"id", "product_ids"} /\ v # None

\* where(field).test(lambda v: isinstance(v, str) and v.lower() == value.lower())
QueryLower(field, value) == [field |-> field, value |-> value, test |-> "lower"]

QueryTest(q, doc) ==
    /\ q.field \in DOMAIN doc
    /\ IF "test" \in DOMAIN q
       THEN is_str(q.field, doc[q.field]) /\ lower(doc[q.field]) = lower(q.value)
       ELSE doc[q.field] = q.value

\* dict.update(fields)
DictUpdate(doc, fields) ==
    [k \in DOMAIN doc \cup DOMAIN fields |->
        IF k \in DOMAIN fields THEN fields[k] ELSE doc[k]]

Matching(rows, q) == { i \in DOMAIN rows : QueryTest(q, rows[i]) }

\* Table.contains(cond)
TableContains(rows, q) == Matching(rows, q) # {}

\* Table.get(cond): the first matching document in iteration order, else None
TableGet(rows, q) ==
    IF Matching(rows, q) = {} THEN NoDoc
    ELSE rows[CHOOSE i \in Matching(rows, q) : \A j \in Matching(rows, q) : i <= j]

\* faulty variant: the new document is put before the others
TableInsert_First(rows, doc) == << doc >> \o rows

\* Table.insert(document): the new document gets the next doc_id and is last
TableInsert(rows, doc) == Append(rows, doc)

\* Table.update(fields, cond): every matching document is updated in place
TableUpdate(rows, fields, q) ==
    [i \in DOMAIN rows |->
        IF QueryTest(q, rows[i]) THEN DictUpdate(rows[i], fields) ELSE rows[i]]

\* Table.upsert(document, cond): update the matching documents, insert if none
TableUpsert(rows, doc, q) ==
    IF Matching(rows, q) # {} THEN TableUpdate(rows, doc, q)
    ELSE TableInsert(rows, doc)

\* faulty variant: a removed document stays as a tombstone without its id
TableRemove_Tombstone(rows, q) ==
    [i \in DOMAIN rows |->
        IF QueryTest(q, rows[i]) THEN [rows[i] EXCEPT !.id = 0] ELSE rows[i]]

\* Table.remove(cond): every matching document is removed, the others keep
\* their order
TableRemove(rows, q) == SelectSeq(rows, LAMBDA d : ~QueryTest(q, d))

\* ------------------------------------------------------- repo.py: Repo._op
\* The outcome of an _op closure: it raises RuntimeError(code) or returns a
\* value; rows is the table afterwards.
Raise(code, rows) == [raised |-> TRUE, exc |-> code, rows |-> rows]
Return(v, rows) == [raised |-> FALSE, ret |-> v, rows |-> rows]

\* faulty variant: the id_exists check is missing
create_op_NoIdCheck(rspec, rows, obj) ==
    LET err == validate(rows, rspec, obj, NoId)
    IN  IF truthy(err) THEN Raise(err, rows)
        ELSE Return(obj, TableInsert(rows, dump_python(rspec, obj)))

\* faulty variant: validation runs before the id check
create_op_ValidateFirst(rspec, rows, obj) ==
    LET err == validate(rows, rspec, obj, NoId)
    IN  IF truthy(err) THEN Raise(err, rows)
        ELSE IF \E i \in DOMAIN rows : DictGet(rows[i], "id") = obj.id
             THEN Raise(id_exists, rows)
             ELSE Return(obj, TableInsert(rows, dump_python(rspec, obj)))

create_op(rspec, rows, obj) ==
    IF \E i \in DOMAIN rows : DictGet(rows[i], "id") = obj.id
    THEN Raise(id_exists, rows)
    ELSE LET err == validate(rows, rspec, obj, NoId)
         IN  IF truthy(err) THEN Raise(err, rows)
             ELSE Return(obj, TableInsert(rows, dump_python(rspec, obj)))

\* faulty variant: upsert refuses an id that is present, as create does
upsert_op_RequiresAbsent(rspec, rows, obj) ==
    IF TableContains(rows, QueryEq("id", obj.id)) THEN Raise(id_exists, rows)
    ELSE LET err == validate(rows, rspec, obj, obj.id)
         IN  IF truthy(err) THEN Raise(err, rows)
             ELSE Return(obj, TableInsert(rows, dump_python(rspec, obj)))

\* faulty variant: upsert inserts without looking for the record of the id
upsert_op_AlwaysInsert(rspec, rows, obj) ==
    LET err == validate(rows, rspec, obj, obj.id)
    IN  IF truthy(err) THEN Raise(err, rows)
        ELSE Return(obj, TableInsert(rows, dump_python(rspec, obj)))

\* faulty variant: the record is written before the candidate is validated
upsert_op_WriteFirst(rspec, rows, obj) ==
    LET written == TableUpsert(rows, dump_python(rspec, obj), QueryEq("id", obj.id))
        err == validate(rows, rspec, obj, obj.id)
    IN  IF truthy(err) THEN Raise(err, written) ELSE Return(obj, written)

upsert_op(rspec, rows, obj) ==
    LET err == validate(rows, rspec, obj, obj.id)
    IN  IF truthy(err) THEN Raise(err, rows)
        ELSE Return(obj, TableUpsert(rows, dump_python(rspec, obj), QueryEq("id", obj.id)))

\* faulty variant: the record's own id is not excluded from the uniqueness check
update_op_NoExclude(rspec, rows, obj) ==
    IF ~TableContains(rows, QueryEq("id", obj.id))
    THEN Raise(not_found, rows)
    ELSE LET err == validate(rows, rspec, obj, NoId)
         IN  IF truthy(err) THEN Raise(err, rows)
             ELSE Return(obj, TableUpdate(rows, dump_python(rspec, obj), QueryEq("id", obj.id)))

\* faulty variant: update validates and returns obj but does not write it
update_op_NoWrite(rspec, rows, obj) ==
    IF ~TableContains(rows, QueryEq("id", obj.id))
    THEN Raise(not_found, rows)
    ELSE LET err == validate(rows, rspec, obj, obj.id)
         IN  IF truthy(err) THEN Raise(err, rows) ELSE Return(obj, rows)

update_op(rspec, rows, obj) ==
    IF ~TableContains(rows, QueryEq("id", obj.id))
    THEN Raise(not_found, rows)
    ELSE LET err == validate(rows, rspec, obj, obj.id)
         IN  IF truthy(err) THEN Raise(err, rows)
             ELSE Return(obj, TableUpdate(rows, dump_python(rspec, obj), QueryEq("id", obj.id)))

\* faulty variant: the remove condition matches every document once the id is found
delete_op_RemoveAll(rspec, rows, entity_id) ==
    LET removed == Matching(rows, QueryEq("id", entity_id))
    IN  IF removed = {} THEN Raise(not_found, rows)
        ELSE Return(entity_id, <<>>)

delete_op(rspec, rows, entity_id) ==
    LET removed == Matching(rows, QueryEq("id", entity_id))
    IN  IF removed = {} THEN Raise(not_found, rows)
        ELSE Return(entity_id, TableRemove(rows, QueryEq("id", entity_id)))

get_op(rspec, rows, entity_id) ==
    LET doc == TableGet(rows, QueryEq("id", entity_id))
    IN  IF doc = NoDoc THEN Raise(not_found, rows)
        ELSE Return(validate_python(rspec, doc), rows)

\* the condition of get_by / lookup_id_by / exists_by
FieldQuery(field, value, nocase) ==
    IF nocase /\ is_str(field, value) THEN QueryLower(field, value)
    ELSE QueryEq(field, value)

list_op(rspec, rows) ==
    Return([i \in DOMAIN rows |-> validate_python(rspec, rows[i])], rows)

get_by_op(rspec, rows, field, value, nocase) ==
    LET doc == TableGet(rows, FieldQuery(field, value, nocase))
    IN  IF doc = NoDoc THEN Raise(not_found, rows)
        ELSE Return(validate_python(rspec, doc), rows)

corrupt_row == <<"corrupt_row">>

\* faulty variant: the id of the last matching document
lookup_id_by_op_LastMatch(rspec, rows, field, value, nocase) ==
    LET hits == Matching(rows, FieldQuery(field, value, nocase))
    IN  IF hits = {} THEN Raise(not_found, rows)
        ELSE Return(rows[CHOOSE i \in hits : \A j \in hits : j <= i].id, rows)

\* int(doc['id']) of the first matching document
lookup_id_by_op(rspec, rows, field, value, nocase) ==
    LET doc == TableGet(rows, FieldQuery(field, value, nocase))
    IN  IF doc = NoDoc THEN Raise(not_found, rows)
        ELSE IF "id" \notin DOMAIN doc THEN Raise(corrupt_row, rows)
        ELSE Return(doc.id, rows)

\* faulty variant: no match is a failure, as it is for get_by
exists_by_op_RaisesWhenAbsent(rspec, rows, field, value, nocase) ==
    IF TableContains(rows, FieldQuery(field, value, nocase)) THEN Return(TRUE, rows)
    ELSE Raise(not_found, rows)

exists_by_op(rspec, rows, field, value, nocase) ==
    Return(TableContains(rows, FieldQuery(field, value, nocase)), rows)

\* any(r.field == field and r.nocase for r in self.spec.unique)
unique_nocase(rspec, field) ==
    \E k \in DOMAIN rspec.unique :
        rspec.unique[k].field = field /\ rspec.unique[k].nocase

\* faulty variant: the lookup is case-insensitive whatever the rules say
get_by_unique_op_AlwaysNocase(rspec, rows, field, value) ==
    get_by_op(rspec, rows, field, value, TRUE)

get_by_unique_op(rspec, rows, field, value) ==
    get_by_op(rspec, rows, field, value, unique_nocase(rspec, field))

\* _run: RuntimeError(code) becomes IOFailure(code), a return IOSuccess(out)
RunResult(r) == IF r.raised THEN IOFailure(r.exc) ELSE IOSuccess(r.ret)

\* ------------------------------------------------------------------ state
VARIABLES
    spec,     \* the RepoSpec the Repo was built with (immutable)
    env_db,   \* env.db is not None: the TinyDB handle is open
    tbl,      \* the table's documents in the handle's cache (<<>> when closed)
    file,     \* the backing file: whether it exists, and its JSON contents
    last,     \* the flow call that has just returned: op, argument, table
              \* before it, IOResult; Idle once the caller has taken the result
    ref       \* reference map id -> object of the successful writes so far

\* The environment of the example project's DataAPI (example_project/data_api.py),
\* whose handle holds the products and the systems table.
VARIABLES
    api_db,   \* the documents of each table in the handle's cache
    api_file, \* the backing file: whether it exists, and its JSON contents per table
    api_last, \* the DataAPI call that has just returned
    api_pc    \* the position of a create_system / update_system call in progress

\* Two processes, each with its own Env and TinyDB handle on the same db_path
\* (and the same lock_path, when one is configured).
VARIABLES
    lock_path, \* env.lock_path is not None
    lock,      \* the process that holds the exclusive file lock, or NoProc
    disk,      \* the text of the file at db_path
    proc       \* per process: its handle's cache and the position of its call

repo_vars == <<spec, env_db, tbl, file, last, ref>>
api_vars == <<api_db, api_file, api_last, api_pc>>
proc_vars == <<lock_path, lock, disk, proc>>
vars == <<spec, env_db, tbl, file, last, ref, api_db, api_file, api_last, api_pc,
          lock_path, lock, disk, proc>>

EmptyMap == [i \in {} |-> NoDoc]

\* No call is outstanding: the caller is about to make its next call.
Idle ==
    [op |-> "idle", arg |-> NoId, before |-> <<>>, result |-> IOSuccess(NoId),
     opened |-> FALSE]

\* The DataAPI's environment before anything has run on it.
EmptyDb == [products |-> <<>>, systems |-> <<>>]
ApiIdle == [op |-> "idle", arg |-> NoId, before |-> EmptyDb, result |-> IOSuccess(NoId)]
NoCall == [op |-> "none"]

\* The two processes before anything has run: no file text, nothing cached.
Procs == {"A", "B"}
NoProc == "none"
NoCache == [loaded |-> FALSE, rows |-> <<>>]
Loaded(rows) == [loaded |-> TRUE, rows |-> rows]
NoGhost == [none |-> TRUE]
\* The argument and the result value a process holds are tagged by their kind
\* (an entity, an id, an error code, nothing), one type per component.
Nothing == [nothing |-> TRUE]
Arg(op, arg) == IF op = "create" THEN [entity |-> arg] ELSE [id |-> arg]
ArgOf(pr) == IF pr.op = "create" THEN pr.arg.entity ELSE pr.arg.id
Held(op, result) ==
    [tag |-> result.tag,
     value |-> IF result.tag = "IOFailure" THEN [code |-> result.value]
               ELSE IF op = "delete" THEN [id |-> result.value]
               ELSE [entity |-> result.value]]

IdleProc ==
    [pc |-> "idle", cache |-> NoCache, op |-> "none", arg |-> Nothing,
     result |-> IOSuccess(Nothing), written |-> 0, ghost |-> NoGhost]

ProcInit ==
    /\ lock = NoProc
    /\ disk = <<>>
    /\ proc = [p \in Procs |-> IdleProc]

ApiInit ==
    /\ api_db = EmptyDb
    /\ api_file = [exists |-> FALSE, text |-> EmptyDb]
    /\ api_last = ApiIdle
    /\ api_pc = NoCall

\* Env(db_path=...) on a path where no file exists; nothing has run yet.
Init ==
    /\ spec \in SpecConfigs
    /\ env_db = FALSE
    /\ tbl = <<>>
    /\ file = [exists |-> FALSE, text |-> <<>>]
    /\ last = Idle
    /\ ref = EmptyMap
    /\ ApiInit
    /\ lock_path = FALSE
    /\ ProcInit

\* env.py _open_db followed by repo.py _table: the documents the flow works
\* on.  An open handle serves its cache; a new handle reads the file (a
\* missing or empty file is an empty table).
\* faulty variant: a handle is constructed whether or not one is open
_open_db_Always(db) == [db |-> TRUE, opened |-> TRUE]

\* _open_db: TinyDB(...) is constructed only if env.db is None; db is
\* whether env.db is set afterwards, opened whether a handle was constructed
_open_db(db) == [db |-> TRUE, opened |-> ~db]

OpenedRows == IF _open_db(env_db).opened THEN json_loads(file.text) ELSE tbl

\* TinyDB(...) creates the file when it is missing.
Touched == [exists |-> TRUE, text |-> file.text]

\* env.db.storage.flush(): the cache is written to the file
Flushed(rows) == [exists |-> TRUE, text |-> json_dumps(rows)]

\* _run(spec, True, op): on a return the cache is flushed; a raise skips the
\* flush (the op raised before changing the table).
WriteFlow(op, arg, rows, r) ==
    /\ last.op = "idle"
    /\ env_db' = _open_db(env_db).db
    /\ tbl' = r.rows
    /\ file' = IF r.raised THEN Touched ELSE Flushed(r.rows)
    /\ last' = [op |-> op, arg |-> arg, before |-> rows, result |-> RunResult(r),
                opened |-> _open_db(env_db).opened]
    /\ UNCHANGED <<spec, api_vars, proc_vars>>

\* _run(spec, False, op)
ReadFlow(op, arg, rows, r) ==
    /\ last.op = "idle"
    /\ env_db' = _open_db(env_db).db
    /\ tbl' = r.rows
    /\ file' = Touched
    /\ last' = [op |-> op, arg |-> arg, before |-> rows, result |-> RunResult(r),
                opened |-> _open_db(env_db).opened]
    /\ UNCHANGED <<spec, ref, api_vars, proc_vars>>

RefPut(obj) == [i \in DOMAIN ref \cup {obj.id} |-> IF i = obj.id THEN obj ELSE ref[i]]
RefDel(id) == [i \in DOMAIN ref \ {id} |-> ref[i]]

\* RepoAPI.create_flow(obj)(env)
create_flow(obj) ==
    LET r == create_op(spec, OpenedRows, obj)
    IN  /\ WriteFlow("create", obj, OpenedRows, r)
        /\ ref' = IF r.raised THEN ref ELSE RefPut(obj)

\* RepoAPI.upsert_flow(obj)(env)
upsert_flow(obj) ==
    LET r == upsert_op(spec, OpenedRows, obj)
    IN  /\ WriteFlow("upsert", obj, OpenedRows, r)
        /\ ref' = IF r.raised THEN ref ELSE RefPut(obj)

\* RepoAPI.update_flow(obj)(env)
update_flow(obj) ==
    LET r == update_op(spec, OpenedRows, obj)
    IN  /\ WriteFlow("update", obj, OpenedRows, r)
        /\ ref' = IF r.raised THEN ref ELSE RefPut(obj)

\* RepoAPI.delete_flow(entity_id)(env)
delete_flow(entity_id) ==
    LET r == delete_op(spec, OpenedRows, entity_id)
    IN  /\ WriteFlow("delete", entity_id, OpenedRows, r)
        /\ ref' = IF r.raised THEN ref ELSE RefDel(entity_id)

\* RepoAPI.get_flow(entity_id)(env)
get_flow(entity_id) ==
    ReadFlow("get", entity_id, OpenedRows, get_op(spec, OpenedRows, entity_id))

\* RepoAPI.list_flow()(env)
list_flow ==
    ReadFlow("list", NoId, OpenedRows, list_op(spec, OpenedRows))

\* RepoAPI.get_by_flow(field, value, nocase)(env)
get_by_flow(field, value, nocase) ==
    ReadFlow("get_by", [field |-> field, value |-> value, nocase |-> nocase],
             OpenedRows, get_by_op(spec, OpenedRows, field, value, nocase))

\* RepoAPI.lookup_id_by_flow(field, value, nocase)(env)
lookup_id_by_flow(field, value, nocase) ==
    ReadFlow("lookup_id_by", [field |-> field, value |-> value, nocase |-> nocase],
             OpenedRows, lookup_id_by_op(spec, OpenedRows, field, value, nocase))

\* RepoAPI.exists_by_flow(field, value, nocase)(env)
exists_by_flow(field, value, nocase) ==
    ReadFlow("exists_by", [field |-> field, value |-> value, nocase |-> nocase],
             OpenedRows, exists_by_op(spec, OpenedRows, field, value, nocase))

\* RepoAPI.get_by_unique_flow(field, value)(env)
get_by_unique_flow(field, value) ==
    ReadFlow("get_by_unique", [field |-> field, value |-> value],
             OpenedRows, get_by_unique_op(spec, OpenedRows, field, value))

\* The (field, value) pairs looked up: every name and email of the value
\* sets, and an email in the other case.
Lookups ==
    { <<"name", v>> : v \in NameVals } \cup { <<"email", v>> : v \in EmailVals \cup { <<"E">> } }

\* shutdown_env()(env): env.db.close() flushes the cache and drops the handle;
\* a closed environment is left as it is.
shutdown_env ==
    /\ last.op = "idle"
    /\ env_db' = FALSE
    /\ tbl' = <<>>
    /\ file' = IF env_db THEN Flushed(tbl) ELSE file
    /\ last' = [op |-> "shutdown_env", arg |-> NoId, before |-> OpenedRows,
                result |-> IOSuccess(NoId), opened |-> FALSE]
    /\ UNCHANGED <<spec, ref, api_vars, proc_vars>>

Create == \E obj \in Objs : create_flow(obj)
Upsert == \E obj \in Objs : upsert_flow(obj)
Update == \E obj \in Objs : update_flow(obj)
Delete == \E entity_id \in Ids : delete_flow(entity_id)
Get == \E entity_id \in Ids : get_flow(entity_id)
Shutdown == shutdown_env
List == list_flow
GetBy == \E l \in Lookups, nocase \in BOOLEAN : get_by_flow(l[1], l[2], nocase)
GetByUnique == \E l \in Lookups : get_by_unique_flow(l[1], l[2])
LookupIdBy == \E l \in Lookups, nocase \in BOOLEAN : lookup_id_by_flow(l[1], l[2], nocase)
ExistsBy == \E l \in Lookups, nocase \in BOOLEAN : exists_by_flow(l[1], l[2], nocase)

\* The flows are synchronous: the caller takes the IOResult of a call before
\* it makes the next one.
Returned ==
    /\ last.op # "idle"
    /\ last' = Idle
    /\ UNCHANGED <<spec, env_db, tbl, file, ref, api_vars, proc_vars>>

Next ==
    Create \/ Upsert \/ Update \/ Delete \/ Get \/ Shutdown \/ List \/ GetBy
        \/ GetByUnique \/ LookupIdBy \/ ExistsBy \/ Returned

Spec == Init /\ [][Next]_vars

\* =================================================================== claims
\* Vocabulary of the claims, stated on the stored records themselves.

Writes == {"create", "upsert", "update"}

Succeeded == last.result.tag = "IOSuccess"
Failed == last.result.tag = "IOFailure"
FailedWith(code) == Failed /\ last.result.value = code
SucceededWith(v) == Succeeded /\ last.result.value = v

\* the records stored in the environment, as a reader of the store sees them
Stored == OpenedRows

HasId(rows, id) == \E i \in DOMAIN rows : rows[i].id = id

\* the normalized value of a unique-rule field: lower-cased under a
\* case-insensitive rule
Normalized(rule, v) ==
    IF v = None THEN None ELSE IF rule.nocase THEN lower(v) ELSE v

\* a record with another id holds the candidate's normalized value, and the
\* value is not a null the rule allows
Conflict(rows, rule, obj) ==
    /\ ~(obj[rule.field] = None /\ rule.allow_none)
    /\ \E i \in DOMAIN rows :
          /\ rows[i].id # obj.id
          /\ Normalized(rule, rows[i][rule.field]) = Normalized(rule, obj[rule.field])

AnyConflict(rows, obj) ==
    \E k \in DOMAIN spec.unique : Conflict(rows, spec.unique[k], obj)

\* the code of the first violated rule in declaration order
FirstViolation(rows, obj) ==
    LET k == CHOOSE k \in DOMAIN spec.unique :
                /\ Conflict(rows, spec.unique[k], obj)
                /\ \A m \in DOMAIN spec.unique :
                      Conflict(rows, spec.unique[m], obj) => k <= m
    IN  <<"unique_violation:", spec.unique[k].field>>

\* what the custom validator, if any, answers for the candidate
ValidatorAnswer(rows, obj) ==
    IF spec.validator = None THEN None
    ELSE CallValidator(spec.validator, rows, obj, obj.id)

\* rows with the record of obj.id replaced by obj, every position kept
Replaced(rows, obj) ==
    [i \in DOMAIN rows |-> IF rows[i].id = obj.id THEN obj ELSE rows[i]]

\* rows without the records of the id, the others in their order
Without(rows, id) == SelectSeq(rows, LAMBDA d : d.id # id)

\* ---------------------------------------------------------------------- C1
\* C1: for every UniqueRule of the spec, no two stored records with different
\* ids have equal normalized values for the rule's field (lower-cased when
\* the rule is case-insensitive), except that several records may hold null
\* when the rule allows null.  It holds of the cache and of the backing file
\* after any sequence of successful and failed create/upsert/update/delete.
UniqueIn(rows) ==
    \A k \in DOMAIN spec.unique : \A i, j \in DOMAIN rows :
        LET rule == spec.unique[k]
        IN  (/\ rows[i].id # rows[j].id
             /\ Normalized(rule, rows[i][rule.field])
                  = Normalized(rule, rows[j][rule.field]))
            => (rows[i][rule.field] = None /\ rule.allow_none)

C1_UniquenessInvariant == UniqueIn(Stored) /\ UniqueIn(json_loads(file.text))

\* C1 witness: two records are stored and a write has just been refused for
\* a unique rule.
C1_Witness ==
    /\ Len(tbl) >= 2
    /\ last.op \in Writes
    /\ Failed
    /\ last.result.value[1] = "unique_violation:"

\* ---------------------------------------------------------------------- C2
\* C2: at most one stored record carries any given id value.
C2_IdUnique ==
    \A i, j \in DOMAIN Stored : Stored[i].id = Stored[j].id => i = j

\* C2 witness: a create on an id that is taken was refused while two records
\* are stored.
C2_Witness ==
    /\ last.op = "create"
    /\ FailedWith(id_exists)
    /\ Len(tbl) >= 2

\* ---------------------------------------------------------------------- C3
\* C3: create(obj) on a collection that already holds obj.id fails id_exists,
\* also when obj would violate a unique rule (the id check comes first), and
\* stores nothing; create on a free id with no unique rule violated and no
\* objection of the validator returns success carrying obj, and obj is
\* stored as the last record.
C3_Create ==
    last.op = "create" =>
        LET obj == last.arg
            before == last.before
        IN  /\ HasId(before, obj.id) =>
                (FailedWith(id_exists) /\ tbl = before)
            /\ (/\ ~HasId(before, obj.id)
                /\ ~AnyConflict(before, obj)
                /\ ValidatorAnswer(before, obj) = None) =>
                (SucceededWith(obj) /\ tbl = Append(before, obj))

\* C3 witness: a create whose id is taken and whose name is also held by a
\* record with another id was refused with id_exists.
C3_Witness ==
    /\ last.op = "create"
    /\ HasId(last.before, last.arg.id)
    /\ AnyConflict(last.before, last.arg)
    /\ FailedWith(id_exists)

\* ---------------------------------------------------------------------- C4
\* C4: update(obj) fails not_found and inserts nothing when no record has
\* obj.id.  When the record exists, uniqueness is checked against every
\* record except the one with obj.id: with no conflict (and no objection of
\* the validator) the update succeeds and overwrites the record in place,
\* also when obj keeps the record's own unique value; when a record with a
\* different id holds the value it fails unique_violation:<field> and nothing
\* changes.
C4_Update ==
    last.op = "update" =>
        LET obj == last.arg
            before == last.before
        IN  /\ ~HasId(before, obj.id) =>
                (FailedWith(not_found) /\ tbl = before)
            /\ (/\ HasId(before, obj.id)
                /\ ~AnyConflict(before, obj)
                /\ ValidatorAnswer(before, obj) = None) =>
                (SucceededWith(obj) /\ tbl = Replaced(before, obj))
            /\ (HasId(before, obj.id) /\ AnyConflict(before, obj)) =>
                (FailedWith(FirstViolation(before, obj)) /\ tbl = before)

\* C4 witness: an update that keeps the record's own unique values and
\* changes another field succeeded.
C4_Witness ==
    /\ last.op = "update"
    /\ Succeeded
    /\ tbl # last.before
    /\ \E i \in DOMAIN last.before :
          /\ last.before[i].id = last.arg.id
          /\ \A k \in DOMAIN spec.unique :
                last.before[i][spec.unique[k].field] = last.arg[spec.unique[k].field]

\* ---------------------------------------------------------------------- C5
\* C5: upsert(obj) never fails id_exists or not_found.  With no conflict with
\* a record of another id and no objection of the validator it stores obj at
\* obj.id: it appends obj when the id is absent and overwrites the record in
\* place when present.  It fails only with a validation error computed
\* against the records other than the one with obj.id, and then nothing
\* changes.
C5_Upsert ==
    last.op = "upsert" =>
        LET obj == last.arg
            before == last.before
        IN  /\ ~FailedWith(id_exists) /\ ~FailedWith(not_found)
            /\ (~AnyConflict(before, obj) /\ ValidatorAnswer(before, obj) = None) =>
                /\ SucceededWith(obj)
                /\ tbl = IF HasId(before, obj.id) THEN Replaced(before, obj)
                         ELSE Append(before, obj)
            /\ Failed =>
                /\ tbl = before
                /\ \/ /\ AnyConflict(before, obj)
                      /\ last.result.value = FirstViolation(before, obj)
                   \/ /\ ~AnyConflict(before, obj)
                      /\ ValidatorAnswer(before, obj) # None
                      /\ last.result.value = ValidatorAnswer(before, obj)

\* C5 witness: an upsert overwrote the record of an id that was present.
C5_Witness ==
    /\ last.op = "upsert"
    /\ Succeeded
    /\ HasId(last.before, last.arg.id)
    /\ tbl # last.before
    /\ Len(tbl) >= 2

\* ---------------------------------------------------------------------- C6
\* C6: idempotent upsert.  An upsert(x) made when x is already stored under
\* x.id with identical content, as a successful upsert(x) leaves it, succeeds
\* and leaves the collection (records, values, order) and the backing file
\* exactly as they were.
StoredAs(rows, obj) == \E i \in DOMAIN rows : rows[i] = obj

C6_IdempotentUpsert ==
    (last.op = "upsert" /\ StoredAs(last.before, last.arg)) =>
        /\ SucceededWith(last.arg)
        /\ tbl = last.before
        /\ json_loads(file.text) = last.before

\* C6 witness: the second of two identical upserts has run on a collection
\* of two records.
C6_Witness ==
    /\ last.op = "upsert"
    /\ StoredAs(last.before, last.arg)
    /\ Succeeded
    /\ Len(tbl) >= 2

\* ---------------------------------------------------------------------- C7
\* C7: delete(id) fails not_found when no record has the id and changes
\* nothing; otherwise it returns id and removes exactly that record, the
\* others keeping their values and order, and a get(id) made immediately
\* afterwards returns not_found.
C7_Delete ==
    last.op = "delete" =>
        LET id == last.arg
            before == last.before
        IN  /\ ~HasId(before, id) => (FailedWith(not_found) /\ tbl = before)
            /\ HasId(before, id) =>
                /\ SucceededWith(id)
                /\ tbl = Without(before, id)
                /\ Len(tbl) = Len(before) - 1
                /\ RunResult(get_op(spec, Stored, id)) = IOFailure(not_found)

\* C7 witness: one of two stored records has just been deleted.
C7_Witness ==
    /\ last.op = "delete"
    /\ Succeeded
    /\ Len(last.before) >= 2
    /\ Len(tbl) >= 1

\* ---------------------------------------------------------------------- C8
\* C8: the repo behaves like a reference map id -> object.  get(id) returns
\* the object passed to the most recent successful create/upsert/update for
\* that id if no successful delete(id) followed it (ref holds exactly these
\* objects), and not_found otherwise.
C8_ReferenceMap ==
    last.op = "get" =>
        IF last.arg \in DOMAIN ref
        THEN SucceededWith(ref[last.arg])
        ELSE FailedWith(not_found)

\* C8 witness: a get returned the object of an id while another record was
\* stored before it.
C8_Witness ==
    /\ last.op = "get"
    /\ Succeeded
    /\ Len(tbl) >= 2
    /\ tbl[1].id # last.arg

\* ---------------------------------------------------------------------- C9
\* C9: on create with a free id, for a unique rule no earlier rule objects
\* to: under a case-sensitive rule an exactly equal stored value is refused
\* with unique_violation:<field>, while a stored value that differs only in
\* letter case does not stand in the way (with no other objection the record
\* is created next to it); under a case-insensitive rule a stored value that
\* differs only in case is refused with unique_violation:<field>.
OnlyCaseDiffers(a, b) == a # None /\ b # None /\ a # b /\ lower(a) = lower(b)

HoldsEqual(rows, f, obj) ==
    \E i \in DOMAIN rows : rows[i][f] = obj[f]

HoldsCaseVariant(rows, f, obj) ==
    \E i \in DOMAIN rows : OnlyCaseDiffers(rows[i][f], obj[f])

C9_CaseSensitivity ==
    (last.op = "create" /\ ~HasId(last.before, last.arg.id)) =>
        \A k \in DOMAIN spec.unique :
            LET rule == spec.unique[k]
                f == rule.field
                obj == last.arg
                before == last.before
                earlier == \E m \in 1..(k - 1) : Conflict(before, spec.unique[m], obj)
                later == \E m \in (k + 1)..Len(spec.unique) :
                            Conflict(before, spec.unique[m], obj)
            IN  ~earlier =>
                /\ (~rule.nocase /\ obj[f] # None /\ HoldsEqual(before, f, obj)) =>
                      FailedWith(<<"unique_violation:", f>>)
                /\ (/\ ~rule.nocase
                    /\ HoldsCaseVariant(before, f, obj)
                    /\ ~HoldsEqual(before, f, obj)
                    /\ ~later
                    /\ ValidatorAnswer(before, obj) = None) =>
                      (SucceededWith(obj) /\ HoldsCaseVariant(tbl, f, obj)
                         /\ StoredAs(tbl, obj))
                /\ (rule.nocase /\ HoldsCaseVariant(before, f, obj)) =>
                      FailedWith(<<"unique_violation:", f>>)

\* C9 witness: under a case-sensitive rule a record was created whose value
\* differs only in case from a stored one.
C9_Witness ==
    /\ last.op = "create"
    /\ Succeeded
    /\ \E k \in DOMAIN spec.unique :
          /\ ~spec.unique[k].nocase
          /\ HoldsCaseVariant(last.before, spec.unique[k].field, last.arg)

\* --------------------------------------------------------------------- C10
\* C10: when every unique rule passes and the spec has a custom validator,
\* any non-null value the validator returns makes the create/update/upsert
\* fail with exactly that value as the failure code, and nothing is written.
C10_ValidatorSurfaced ==
    (/\ last.op \in Writes
     /\ last.op = "create" => ~HasId(last.before, last.arg.id)
     /\ last.op = "update" => HasId(last.before, last.arg.id)
     /\ ~AnyConflict(last.before, last.arg)
     /\ spec.validator # None
     /\ ValidatorAnswer(last.before, last.arg) # None) =>
        /\ FailedWith(ValidatorAnswer(last.before, last.arg))
        /\ tbl = last.before

\* ========================================= example_project/data_api.py: DataAPI
\* The DataAPI over one environment: products and systems.  A Product is an
\* entity of the shape of Objs (its sku is the required str field, its tag
\* the optional one); a System has a name and a list of product ids.
MaxSys == 1

SysIds == 1..MaxSys

\* System.product_ids: a List[int] of at most two of the ids 1 and 2, repeats
\* included
RefIds == {1, 2}
RefLists == { <<>> } \cup { <<p>> : p \in RefIds } \cup { <<p, q>> : p, q \in RefIds }

ProductObjs == [id : Ids, name : { <<"A", "b">>, <<"A", "B">> }, email : { None }]

\* System.name: two names that differ in more than case
SysNames == { <<"A", "b">>, <<"c">> }

SystemObjs == [id : SysIds, name : SysNames, product_ids : RefLists]

\* update_system(system_id, **fields): the keyword overrides
Overrides ==
    [name : SysNames] \cup [product_ids : RefLists]
        \cup [name : SysNames, product_ids : RefLists]

SYSTEM_SPEC == RepoSpec("systems", << UniqueRule("name", TRUE, TRUE) >>, None)

missing_product == <<"missing_product">>

\* dataclasses.replace(obj, **fields)
replace(obj, fields) == DictUpdate(obj, fields)

\* What a DataAPI call leaves: its IOResult, the tables of the handle, and
\* whether the handle's cache was flushed to the file.
ApiOut(result, db, flushed) == [result |-> result, db |-> db, flushed |-> flushed]

\* X.<write>_flow(...)(self.env) on table t
RepoWrite(db, t, r) == ApiOut(RunResult(r), [db EXCEPT ![t] = r.rows], ~r.raised)

\* X.<read>_flow(...)(self.env)
RepoRead(db, r) == ApiOut(RunResult(r), db, FALSE)

\* faulty variant: a missing product does not end the loop
exists_res_IgnoresMissing(db, pid) == IOSuccess(TRUE)

\* Products.exists_by_flow("id", pid)(self.env).bind(lambda exists: ...)
exists_res(db, pid) ==
    LET found == RunResult(exists_by_op(PRODUCT_SPEC, db.products, "id", pid, FALSE))
    IN  IF found.tag = "IOFailure" THEN found
        ELSE IF found.value THEN IOSuccess(TRUE) ELSE IOFailure(missing_product)

RECURSIVE ProductsExist(_, _, _)
\* for pid in product_ids, from index k on: the first IOFailure is returned
ProductsExist(db, product_ids, k) ==
    IF k > Len(product_ids) THEN IOSuccess(TRUE)
    ELSE IF exists_res(db, product_ids[k]).tag = "IOFailure"
         THEN exists_res(db, product_ids[k])
         ELSE ProductsExist(db, product_ids, k + 1)

\* faulty variant: the id and the unique rule are checked against the rows of
\* every table of the handle
create_product_ChecksEveryTable(db, product) ==
    LET r == create_op(PRODUCT_SPEC, db.products \o db.systems, product)
    IN  IF r.raised THEN RepoWrite(db, "products", Raise(r.exc, db.products))
        ELSE RepoWrite(db, "products", create_op(PRODUCT_SPEC, db.products, product))

create_product(db, product) ==
    RepoWrite(db, "products", create_op(PRODUCT_SPEC, db.products, product))

get_system(db, system_id) ==
    RepoRead(db, get_op(SYSTEM_SPEC, db.systems, system_id))

\* faulty variant: the system is written before the products are checked
create_system_WriteFirst(db, system) ==
    LET written == RepoWrite(db, "systems", create_op(SYSTEM_SPEC, db.systems, system))
        checked == ProductsExist(db, system.product_ids, 1)
    IN  IF checked.tag = "IOFailure" THEN ApiOut(checked, written.db, written.flushed)
        ELSE written

create_system(db, system) ==
    LET checked == ProductsExist(db, system.product_ids, 1)
    IN  IF checked.tag = "IOFailure" THEN ApiOut(checked, db, FALSE)
        ELSE RepoWrite(db, "systems", create_op(SYSTEM_SPEC, db.systems, system))

\* faulty variant: the product ids of the stored system are checked, not
\* those of the overridden record
update_system_update_ChecksStored(db, system, fields) ==
    LET updated == replace(system, fields)
        checked == ProductsExist(db, system.product_ids, 1)
    IN  IF checked.tag = "IOFailure" THEN ApiOut(checked, db, FALSE)
        ELSE RepoWrite(db, "systems", update_op(SYSTEM_SPEC, db.systems, updated))

\* faulty variant: the overridden record is written without a look at its
\* product ids
update_system_update_Unchecked(db, system, fields) ==
    RepoWrite(db, "systems", update_op(SYSTEM_SPEC, db.systems, replace(system, fields)))

\* _update(system), bound to the success of get_system
update_system_update(db, system, fields) ==
    LET updated == replace(system, fields)
        checked == ProductsExist(db, updated.product_ids, 1)
    IN  IF checked.tag = "IOFailure" THEN ApiOut(checked, db, FALSE)
        ELSE RepoWrite(db, "systems", update_op(SYSTEM_SPEC, db.systems, updated))

update_system(db, system_id, fields) ==
    LET got == get_system(db, system_id)
    IN  IF got.result.tag = "IOFailure" THEN got
        ELSE update_system_update(db, got.result.value, fields)

\* faulty variant: a delete cascades to the systems that list the product
Products_delete_flow_Cascade(db, product_id) ==
    LET out == RepoWrite(db, "products", delete_op(PRODUCT_SPEC, db.products, product_id))
        lists(d) == \E k \in DOMAIN d.product_ids : d.product_ids[k] = product_id
    IN  ApiOut(out.result,
               [out.db EXCEPT !.systems = SelectSeq(db.systems, LAMBDA d : ~lists(d))],
               out.flushed)

\* Products.delete_flow(product_id)(env): the Products repo itself
Products_delete_flow(db, product_id) ==
    RepoWrite(db, "products", delete_op(PRODUCT_SPEC, db.products, product_id))

\* env.db.storage.flush() of the whole cache
ApiFlushed(db) ==
    [exists |-> TRUE,
     text |-> [t \in DOMAIN db |-> json_dumps(db[t])]]

\* A DataAPI call by the single caller of the environment.
ApiCall(op, arg, out) ==
    /\ api_last.op = "idle"
    /\ api_pc = NoCall
    /\ api_db' = out.db
    /\ api_file' = IF out.flushed THEN ApiFlushed(out.db)
                   ELSE [exists |-> TRUE, text |-> api_file.text]
    /\ api_last' = [op |-> op, arg |-> arg, before |-> api_db, result |-> out.result]
    /\ UNCHANGED <<api_pc, repo_vars, proc_vars>>

CreateProduct ==
    \E product \in ProductObjs :
        ApiCall("create_product", product, create_product(api_db, product))

DeleteProduct ==
    \E product_id \in Ids :
        ApiCall("Products.delete", product_id, Products_delete_flow(api_db, product_id))

CreateSystem ==
    \E system \in SystemObjs :
        ApiCall("create_system", system, create_system(api_db, system))

GetSystem ==
    \E system_id \in SysIds :
        ApiCall("get_system", system_id, get_system(api_db, system_id))

UpdateSystem ==
    \E system_id \in SysIds, fields \in Overrides :
        ApiCall("update_system", [system_id |-> system_id, fields |-> fields],
                update_system(api_db, system_id, fields))

ApiReturned ==
    /\ api_last.op # "idle"
    /\ api_pc = NoCall
    /\ api_last' = ApiIdle
    /\ UNCHANGED <<api_db, api_file, api_pc, repo_vars, proc_vars>>

\* The generic repository of Spec is not exercised here.
RepoInit ==
    /\ spec = USER_SPEC
    /\ env_db = FALSE
    /\ tbl = <<>>
    /\ file = [exists |-> FALSE, text |-> <<>>]
    /\ last = Idle
    /\ ref = EmptyMap

InitData == RepoInit /\ ApiInit /\ lock_path = FALSE /\ ProcInit

NextData ==
    CreateProduct \/ DeleteProduct \/ CreateSystem \/ GetSystem \/ UpdateSystem
        \/ ApiReturned

SpecData == InitData /\ [][NextData]_vars

\* ---------------------------------------------------------- DataAPI claims
\* the records of the environment, as stored in the handle and in the file
StoredSystems == api_db.systems
PersistedSystems == json_loads(api_file.text.systems)

HasProduct(db, pid) == \E i \in DOMAIN db.products : db.products[i].id = pid

\* some product id of the list has no stored Product
MissingRef(db, product_ids) ==
    \E k \in DOMAIN product_ids : ~HasProduct(db, product_ids[k])

SameResult(a, b) == a.tag = b.tag /\ a.value = b.value

ApiFailedWith(code) ==
    api_last.result.tag = "IOFailure" /\ api_last.result.value = code

\* what creating the system in the systems repo answers: the id must be new
\* and the name new up to case
SystemCreateResult(rows, system) ==
    IF \E i \in DOMAIN rows : rows[i].id = system.id THEN IOFailure(id_exists)
    ELSE IF \E i \in DOMAIN rows : lower(rows[i].name) = lower(system.name)
         THEN IOFailure(<<"unique_violation:", "name">>)
         ELSE IOSuccess(system)

\* C11: create_system(system) returns missing_product when some id of
\* system.product_ids has no stored Product, and then no System record is
\* created (neither in the handle nor in the file); when every referenced
\* product exists it returns the result of creating the system, which is
\* stored exactly when that result is a success.
C11_CreateSystem ==
    api_last.op = "create_system" =>
        LET system == api_last.arg
            before == api_last.before
            created == SystemCreateResult(before.systems, system)
        IN  /\ api_db.products = before.products
            /\ PersistedSystems = StoredSystems
            /\ IF MissingRef(before, system.product_ids)
               THEN /\ ApiFailedWith(missing_product)
                    /\ StoredSystems = before.systems
               ELSE /\ SameResult(api_last.result, created)
                    /\ StoredSystems =
                         IF created.tag = "IOSuccess"
                         THEN Append(before.systems, system)
                         ELSE before.systems

\* a system whose first product exists and whose second does not is refused
C11_Witness ==
    /\ api_last.op = "create_system"
    /\ Len(api_last.arg.product_ids) = 2
    /\ HasProduct(api_last.before, api_last.arg.product_ids[1])
    /\ ~HasProduct(api_last.before, api_last.arg.product_ids[2])
    /\ ApiFailedWith(missing_product)
    /\ PersistedSystems = <<>>

\* the stored system of an id
SystemOf(rows, id) == rows[CHOOSE i \in DOMAIN rows : rows[i].id = id]

\* the record with the named fields overridden
Overridden(system, fields) ==
    [f \in DOMAIN system |-> IF f \in DOMAIN fields THEN fields[f] ELSE system[f]]

\* what updating the system in the systems repo answers: the name must be
\* new, up to case, among the other systems
SystemUpdateResult(rows, system) ==
    IF \E i \in DOMAIN rows :
          rows[i].id # system.id /\ lower(rows[i].name) = lower(system.name)
    THEN IOFailure(<<"unique_violation:", "name">>)
    ELSE IOSuccess(system)

\* C12: update_system(id, overrides) returns not_found when no system has
\* the id; otherwise, when some product id of the overridden record has no
\* stored Product, it returns missing_product and the stored systems are
\* unchanged; only when all exist is the overridden record persisted through
\* update, whose result is returned.
C12_UpdateSystem ==
    api_last.op = "update_system" =>
        LET id == api_last.arg.system_id
            before == api_last.before
        IN  /\ api_db.products = before.products
            /\ PersistedSystems = StoredSystems
            /\ IF ~HasId(before.systems, id)
               THEN ApiFailedWith(not_found) /\ StoredSystems = before.systems
               ELSE LET updated == Overridden(SystemOf(before.systems, id),
                                              api_last.arg.fields)
                        written == SystemUpdateResult(before.systems, updated)
                    IN  IF MissingRef(before, updated.product_ids)
                        THEN /\ ApiFailedWith(missing_product)
                             /\ StoredSystems = before.systems
                        ELSE /\ SameResult(api_last.result, written)
                             /\ StoredSystems =
                                  IF written.tag = "IOSuccess"
                                  THEN Replaced(before.systems, updated)
                                  ELSE before.systems

\* a stored system whose products all exist is given a list with a missing
\* product: the update is refused and the system keeps its list
C12_Witness ==
    /\ api_last.op = "update_system"
    /\ HasId(api_last.before.systems, api_last.arg.system_id)
    /\ ~MissingRef(api_last.before,
                   SystemOf(api_last.before.systems, api_last.arg.system_id).product_ids)
    /\ "product_ids" \in DOMAIN api_last.arg.fields
    /\ ApiFailedWith(missing_product)
    /\ StoredSystems = api_last.before.systems

\* the system lists the product id
Lists(system, pid) == \E k \in DOMAIN system.product_ids : system.product_ids[k] = pid

\* some stored system lists a product id that no stored Product has
Dangling(db) ==
    \E i \in DOMAIN db.systems : MissingRef(db, db.systems[i].product_ids)

\* C13: deleting a stored Product through the Products repo succeeds whether
\* or not a stored System lists its id; the product is removed and every
\* System record is left as it was, in the handle and in the file, so a
\* listed id is left dangling.
C13_NoCascade ==
    (api_last.op = "Products.delete" /\ HasProduct(api_last.before, api_last.arg)) =>
        /\ api_last.result.tag = "IOSuccess"
        /\ api_last.result.value = api_last.arg
        /\ ~HasProduct(api_db, api_last.arg)
        /\ StoredSystems = api_last.before.systems
        /\ PersistedSystems = api_last.before.systems

\* a product listed by a stored system has been deleted: the system still
\* lists it
C13_Witness ==
    /\ api_last.op = "Products.delete"
    /\ api_last.result.tag = "IOSuccess"
    /\ \E i \in DOMAIN api_last.before.systems :
          Lists(api_last.before.systems[i], api_last.arg)
    /\ ~Dangling(api_last.before)
    /\ Dangling(api_db)
    /\ \E i \in DOMAIN PersistedSystems : Lists(PersistedSystems[i], api_last.arg)

\* =============================== DataAPI: the steps of create / update_system
\* create_system and update_system are sequences of flows on self.env: one
\* exists_by_flow per listed product id, then the write flow.  Each flow is a
\* step; between two steps another caller that shares the environment (whose
\* own flows are as atomic as these) may run Products.delete_flow.  A write
\* flow holds the lock of _with_lock only while it runs, so no lock is held
\* from one step to the next.
Position(op, arg, system, k) == [op |-> op, arg |-> arg, system |-> system, k |-> k]

\* The call returns: raced records whether, when it returned, a listed
\* product whose check had passed was no longer stored.
Finish(op, arg, out, raced) ==
    /\ api_db' = out.db
    /\ api_file' = IF out.flushed THEN ApiFlushed(out.db)
                   ELSE [exists |-> TRUE, text |-> api_file.text]
    /\ api_last' = [op |-> op, arg |-> arg, before |-> api_db,
                    result |-> out.result, raced |-> raced]
    /\ api_pc' = NoCall
    /\ UNCHANGED <<repo_vars, proc_vars>>

\* create_system(system) is entered: the loop is at its first product id
BeginCreateSystem ==
    \E system \in SystemObjs :
        /\ api_last.op = "idle"
        /\ api_pc = NoCall
        /\ api_pc' = Position("create_system", system, system, 1)
        /\ UNCHANGED <<api_db, api_file, api_last, repo_vars, proc_vars>>

\* update_system(system_id, **fields) is entered, with one keyword override:
\* get_system, then _update builds the replacement and its loop is at the
\* first product id
update_system_entered(system_id, fields) ==
    LET got == get_system(api_db, system_id)
        arg == [system_id |-> system_id, fields |-> fields]
    IN  /\ api_last.op = "idle"
        /\ api_pc = NoCall
        /\ IF got.result.tag = "IOFailure"
           THEN Finish("update_system", arg, got, FALSE)
           ELSE /\ api_pc' = Position("update_system", arg,
                                      replace(got.result.value, fields), 1)
                /\ api_file' = [exists |-> TRUE, text |-> api_file.text]
                /\ UNCHANGED <<api_db, api_last, repo_vars, proc_vars>>

BeginUpdateSystem ==
    \E system_id \in SysIds, fields \in [name : SysNames] \cup [product_ids : RefLists] :
        update_system_entered(system_id, fields)

\* one turn of the loop: exists_by_flow on the product id at the position
CheckProduct ==
    /\ api_pc # NoCall
    /\ api_pc.k <= Len(api_pc.system.product_ids)
    /\ LET checked == exists_res(api_db, api_pc.system.product_ids[api_pc.k])
       IN  IF checked.tag = "IOFailure"
           THEN Finish(api_pc.op, api_pc.arg, ApiOut(checked, api_db, FALSE), FALSE)
           ELSE /\ api_pc' = [api_pc EXCEPT !.k = @ + 1]
                /\ api_file' = [exists |-> TRUE, text |-> api_file.text]
                /\ UNCHANGED <<api_db, api_last, repo_vars, proc_vars>>

\* faulty variant: the write flow looks the listed products up again
system_write_Rechecked(db, op, system) ==
    LET checked == ProductsExist(db, system.product_ids, 1)
    IN  IF checked.tag = "IOFailure" THEN ApiOut(checked, db, FALSE)
        ELSE IF op = "update_system"
             THEN RepoWrite(db, "systems", update_op(SYSTEM_SPEC, db.systems, system))
             ELSE RepoWrite(db, "systems", create_op(SYSTEM_SPEC, db.systems, system))

\* the flow after the loop: Systems.create_flow(system) / Systems.update_flow(updated)
system_write(db, op, system) ==
    IF op = "update_system"
    THEN RepoWrite(db, "systems", update_op(SYSTEM_SPEC, db.systems, system))
    ELSE RepoWrite(db, "systems", create_op(SYSTEM_SPEC, db.systems, system))

WriteSystem ==
    /\ api_pc # NoCall
    /\ api_pc.k > Len(api_pc.system.product_ids)
    /\ Finish(api_pc.op, api_pc.arg, system_write(api_db, api_pc.op, api_pc.system),
              \E j \in DOMAIN api_pc.system.product_ids :
                  ~TableContains(api_db.products,
                                 QueryEq("id", api_pc.system.product_ids[j])))

\* Products.delete_flow(product_id)(env) of a stored product by the other
\* caller, between two steps of a call
OtherDelete ==
    \E product_id \in Ids :
        LET out == Products_delete_flow(api_db, product_id)
        IN  /\ api_pc # NoCall
            /\ out.result.tag = "IOSuccess"
            /\ api_db' = out.db
            /\ api_file' = ApiFlushed(out.db)
            /\ UNCHANGED <<api_last, api_pc, repo_vars, proc_vars>>

NextRace ==
    CreateProduct \/ BeginCreateSystem \/ BeginUpdateSystem \/ CheckProduct
        \/ WriteSystem \/ OtherDelete \/ ApiReturned

SpecRace == InitData /\ [][NextRace]_vars

\* C14: create_system and update_system check the products and write the
\* system in separate steps: when a listed product has been deleted by
\* another caller after its check passed and before the system write, the
\* call does not answer missing_product but the result of the write, and a
\* successful write leaves a persisted System that lists a product no
\* stored Product has.
C14_CheckThenAct ==
    (api_last.op \in {"create_system", "update_system"}
        /\ "raced" \in DOMAIN api_last /\ api_last.raced) =>
        LET before == api_last.before
            written ==
                IF api_last.op = "create_system"
                THEN SystemCreateResult(before.systems, api_last.arg)
                ELSE SystemUpdateResult(before.systems,
                        Overridden(SystemOf(before.systems, api_last.arg.system_id),
                                   api_last.arg.fields))
        IN  /\ SameResult(api_last.result, written)
            /\ written.tag = "IOSuccess" =>
                  /\ \E i \in DOMAIN PersistedSystems :
                        /\ PersistedSystems[i] = written.value
                        /\ MissingRef(api_db, PersistedSystems[i].product_ids)
                  /\ Dangling(api_db)

\* create_system has succeeded although a product it lists was deleted
\* between its check and the write: the persisted system dangles
C14_Witness ==
    /\ api_last.op = "create_system"
    /\ api_last.raced
    /\ api_last.result.tag = "IOSuccess"
    /\ ~Dangling(api_last.before)
    /\ \E i \in DOMAIN PersistedSystems :
          /\ PersistedSystems[i] = api_last.arg
          /\ MissingRef(api_db, api_last.arg.product_ids)

\* ============================================ the repository: further claims
\* C19: when a mutating flow returns success the backing file already holds
\* the table as the flow left it; shutdown_env leaves in the file exactly the
\* records that were observable before closing, with equal field values, so
\* that list and get on the reopened path (or on a new Env on it) return
\* them; a list returns the records of the file.
C19_Durable ==
    /\ (last.op \in Writes \cup {"delete"} /\ Succeeded) =>
          /\ file.exists
          /\ json_loads(file.text) = tbl
    /\ last.op = "shutdown_env" =>
          LET reopened == json_loads(file.text)
          IN  /\ ~env_db
              /\ OpenedRows = reopened
              /\ reopened = last.before
              /\ list_op(spec, reopened).ret = last.before
              /\ \A id \in Ids :
                    RunResult(get_op(spec, reopened, id))
                        = RunResult(get_op(spec, last.before, id))
    /\ last.op = "list" =>
          /\ Succeeded
          /\ last.result.value = json_loads(file.text)
          /\ \A i \in DOMAIN last.result.value :
                ref[last.result.value[i].id] = last.result.value[i]

\* an environment holding a record with a null email has been shut down:
\* the file, read back, gives the record with its null
C19_Witness ==
    /\ last.op = "shutdown_env"
    /\ ~env_db
    /\ Len(last.before) = 2
    /\ \E i \in DOMAIN last.before : last.before[i].email = None
    /\ json_loads(file.text) = last.before

\* the stored value of a field matches the looked-up value
Matches(stored, value, nocase) ==
    IF nocase /\ value # None
    THEN stored # None /\ lower(stored) = lower(value)
    ELSE stored = value

\* the first stored record whose field matches, if any
FirstMatch(rows, field, value, nocase) ==
    LET hits == { i \in DOMAIN rows : Matches(rows[i][field], value, nocase) }
    IN  IF hits = {} THEN IOFailure(not_found)
        ELSE IOSuccess(rows[CHOOSE i \in hits : \A j \in hits : i <= j])

\* the spec declares the field case-insensitive
DeclaredNocase(field) ==
    \E k \in DOMAIN spec.unique : spec.unique[k].field = field /\ spec.unique[k].nocase

\* C20: get_by_unique(field, value) matches case-insensitively exactly when a
\* unique rule of the spec declares the field case-insensitive, and
\* case-sensitively otherwise: under the user spec a name that differs only
\* in case from a stored one finds the record, under the product spec a
\* lookup with no exactly equal stored value is not_found;
\* get_by(field, value, nocase=true) finds a stored string that differs only
\* in case.
C20_GetByUnique ==
    /\ last.op = "get_by_unique" =>
          /\ SameResult(last.result,
                        FirstMatch(last.before, last.arg.field, last.arg.value,
                                   DeclaredNocase(last.arg.field)))
          /\ (spec = USER_SPEC /\ last.arg.field = "name"
                /\ \E i \in DOMAIN last.before :
                      lower(last.before[i].name) = lower(last.arg.value))
                => (Succeeded /\ lower(last.result.value.name) = lower(last.arg.value))
          /\ (spec = PRODUCT_SPEC /\ last.arg.field = "name"
                /\ \A i \in DOMAIN last.before : last.before[i].name # last.arg.value)
                => FailedWith(not_found)
    /\ (last.op = "get_by" /\ last.arg.nocase /\ last.arg.value # None
          /\ \E i \in DOMAIN last.before :
                /\ last.before[i][last.arg.field] # None
                /\ lower(last.before[i][last.arg.field]) = lower(last.arg.value))
          => (/\ Succeeded
              /\ lower(last.result.value[last.arg.field]) = lower(last.arg.value))

\* under the user spec a name is looked up in another case than it is stored
\* in, and the record is found
C20_Witness ==
    /\ spec = USER_SPEC
    /\ last.op = "get_by_unique"
    /\ last.arg.field = "name"
    /\ \A i \in DOMAIN last.before : last.before[i].name # last.arg.value
    /\ Succeeded
    /\ last.result.value.name # last.arg.value

\* --------------------------------------------------------------------- C21
\* the three lookups of one (field, value, nocase) on the same records
LookupOf(op, rows, a) ==
    RunResult(CASE op = "get_by" -> get_by_op(spec, rows, a.field, a.value, a.nocase)
                [] op = "lookup_id_by" ->
                       lookup_id_by_op(spec, rows, a.field, a.value, a.nocase)
                [] op = "exists_by" ->
                       exists_by_op(spec, rows, a.field, a.value, a.nocase))

LookupOps == {"get_by", "lookup_id_by", "exists_by"}

\* C21: for any store state and any (field, value, nocase), the three lookups
\* agree: exists_by returns success(true) iff get_by succeeds iff lookup_id_by
\* succeeds; lookup_id_by returns the id of the record get_by returns (the
\* first match in stored order); and when nothing matches exists_by returns
\* success(false), never a failure, while the other two return not_found.
C21_LookupsAgree ==
    last.op \in LookupOps =>
        LET rows == last.before
            a == last.arg
            g == LookupOf("get_by", rows, a)
            k == LookupOf("lookup_id_by", rows, a)
            e == LookupOf("exists_by", rows, a)
            first == FirstMatch(rows, a.field, a.value, a.nocase)
        IN  /\ SameResult(last.result, LookupOf(last.op, rows, a))
            /\ e.tag = "IOSuccess"
            /\ e.value <=> g.tag = "IOSuccess"
            /\ e.value <=> k.tag = "IOSuccess"
            /\ SameResult(g, first)
            /\ g.tag = "IOSuccess" => k.value = g.value.id
            /\ first.tag = "IOFailure" =>
                  /\ e = IOSuccess(FALSE)
                  /\ SameResult(g, IOFailure(not_found))
                  /\ SameResult(k, IOFailure(not_found))

\* lookup_id_by has returned the id of the first of two matching records
C21_Witness ==
    /\ last.op = "lookup_id_by"
    /\ Len(last.before) = 2
    /\ \A i \in DOMAIN last.before :
          Matches(last.before[i][last.arg.field], last.arg.value, last.arg.nocase)
    /\ Succeeded
    /\ last.result.value = last.before[1].id

\* --------------------------------------------------------------------- C27
FlowOps ==
    {"create", "upsert", "update", "delete", "get", "list", "get_by",
     "lookup_id_by", "exists_by", "get_by_unique"}

\* a flow has run: it constructed a handle exactly if none was open, the
\* handle is open afterwards, and the flow worked on the open handle's cache
\* or, with a new handle, on the records of the file
FlowOpensOrReuses ==
    last'.op \in FlowOps =>
        /\ last'.opened <=> ~env_db
        /\ env_db'
        /\ file'.exists
        /\ last'.before = IF env_db THEN tbl ELSE json_loads(file.text)
        /\ last'.result.tag = "IOFailure" =>
              \/ last'.result.value = not_found
              \/ last'.result.value = id_exists
              \/ last'.result.value[1] = "unique_violation:"
              \/ last'.result.value = <<"email_required">>

\* shutdown_env has run: it succeeded; an open handle was flushed, so the
\* file holds the cache, and the handle is cleared; a closed environment is
\* left as it was
ShutdownCloses ==
    last'.op = "shutdown_env" =>
        /\ last'.result.tag = "IOSuccess"
        /\ ~env_db'
        /\ tbl' = <<>>
        /\ IF env_db THEN file'.exists /\ json_loads(file'.text) = tbl
           ELSE file' = file

\* C27: environment handle lifecycle: every *_flow opens the backing store
\* if the environment has no open handle and reuses the existing handle
\* otherwise (a second handle is never opened while one is open);
\* shutdown_env flushes, closes and clears the handle and also succeeds on an
\* already closed environment; a flow run after shutdown_env reopens the
\* store and succeeds.
C27_HandleLifecycle == [][FlowOpensOrReuses /\ ShutdownCloses]_vars

\* a flow has constructed a handle on a file that holds records: the
\* environment had been shut down, and the flow found the record it asked for
C27_Witness ==
    /\ last.op = "get"
    /\ last.opened
    /\ last.before # <<>>
    /\ Succeeded
    /\ env_db

Mutations == Writes \cup {"delete"}

FailedWriteKeepsAll ==
    (last'.op \in Mutations /\ last'.result.tag = "IOFailure") =>
        /\ last'.before = OpenedRows
        /\ tbl' = last'.before
        /\ file'.text = file.text
        /\ json_loads(file'.text) = last'.before

C29_FailedWriteKeepsAll == [][FailedWriteKeepsAll]_vars

\* an upsert of a stored record was refused for the name of the other stored
\* record, and both records are where they were
C29_Witness ==
    /\ last.op = "upsert"
    /\ Failed
    /\ last.result.value = <<"unique_violation:", "name">>
    /\ Len(last.before) = 2
    /\ HasId(last.before, last.arg.id)
    /\ tbl = last.before
    /\ json_loads(file.text) = last.before

\* ------------------------------------------- C30: the order of validation
\* the write reached validation: create found no record of the id, update
\* found one, upsert validates whatever it finds
ReachedValidation ==
    /\ last.op \in Writes
    /\ last.op = "create" => ~HasId(last.before, last.arg.id)
    /\ last.op = "update" => HasId(last.before, last.arg.id)

\* the candidate violates every one of several unique rules
ViolatesSeveral(rows, obj) ==
    /\ Len(spec.unique) > 1
    /\ \A k \in DOMAIN spec.unique : Conflict(rows, spec.unique[k], obj)

\* C30: validation checks the unique rules in declaration order and then the
\* custom validator.  A write that reaches validation with a candidate that
\* violates some unique rule fails with unique_violation:<field> of the first
\* violated rule in declaration order, whatever the validator would answer
\* for the candidate; the validator's code is the result only when no unique
\* rule is violated, and then whenever the validator answers a non-empty
\* code.
C30_ValidationOrder ==
    ReachedValidation =>
        LET obj == last.arg
            before == last.before
            answer == ValidatorAnswer(before, obj)
        IN  /\ AnyConflict(before, obj) =>
                 /\ Failed
                 /\ last.result.value = FirstViolation(before, obj)
            /\ (~AnyConflict(before, obj) /\ truthy(answer)) =>
                 /\ Failed
                 /\ last.result.value = answer
            /\ (~AnyConflict(before, obj) /\ ~truthy(answer)) => Succeeded

\* under the spec that declares the rule on email before the rule on name, a
\* candidate that violates both rules was refused for its email
C30_Witness ==
    /\ ReachedValidation
    /\ spec.unique[1].field = "email"
    /\ ViolatesSeveral(last.before, last.arg)
    /\ FailedWith(<<"unique_violation:", "email">>)

\* ------------------------------------------------- C31: null and uniqueness
\* a record other than the candidate's holds null in the field
NullHeld(rows, obj, field) ==
    \E i \in DOMAIN rows : rows[i].id # obj.id /\ rows[i][field] = None

\* C31: for a write that reaches validation with a candidate whose value for
\* the field of a unique rule is null: when the rule allows null the write is
\* never refused for that field, however many records hold null there; when
\* the rule does not allow null and another record holds null in the field,
\* the write fails with a unique violation, of that field unless a rule
\* declared before it is the one reported.
C31_NullValues ==
    ReachedValidation =>
        \A k \in DOMAIN spec.unique :
            LET rule == spec.unique[k]
                obj == last.arg
            IN  obj[rule.field] = None =>
                  /\ rule.allow_none =>
                        ~(Failed /\ last.result.value = <<"unique_violation:", rule.field>>)
                  /\ (~rule.allow_none /\ NullHeld(last.before, obj, rule.field)) =>
                        /\ Failed
                        /\ \E m \in 1..k :
                              last.result.value = <<"unique_violation:", spec.unique[m].field>>
                        /\ k = 1 =>
                              last.result.value = <<"unique_violation:", rule.field>>

\* under the rule on email that does not allow null, a second record without
\* an email was refused for its email
C31_Witness ==
    /\ ReachedValidation
    /\ ~spec.unique[1].allow_none
    /\ last.arg[spec.unique[1].field] = None
    /\ NullHeld(last.before, last.arg, spec.unique[1].field)
    /\ FailedWith(<<"unique_violation:", "email">>)
    /\ tbl = last.before

\* ---------------------------------------------- C33: every record has an id
EveryRowHasId(rows) == \A i \in DOMAIN rows : "id" \in DOMAIN rows[i]

\* C33: every record stored through create, upsert, update and delete, in
\* the handle and in the file, has an id field; lookup_id_by never answers
\* corrupt_row: it answers the id of a stored record or not_found.
C33_IdField ==
    /\ EveryRowHasId(Stored)
    /\ EveryRowHasId(json_loads(file.text))
    /\ last.op = "lookup_id_by" =>
          /\ ~SameResult(last.result, IOFailure(corrupt_row))
          /\ Succeeded => HasId(last.before, last.result.value)
          /\ Failed => last.result.value = not_found

\* a lookup on two stored records answered the id of the second
C33_Witness ==
    /\ last.op = "lookup_id_by"
    /\ Succeeded
    /\ Len(last.before) = 2
    /\ last.result.value = last.before[2].id
    /\ last.before[2][last.arg.field] = last.arg.value

\* ------------------------------------------------ C37: the order of list
\* what list returns on the rows
Listed(rows) == list_op(spec, rows).ret

IdsOf(records) == [i \in DOMAIN records |-> records[i].id]

RefusedBy(others, obj) ==
    \/ HasId(others, obj.id)
    \/ AnyConflict(others, obj)
    \/ ValidatorAnswer(others, obj) # None

\* C39: a record is absent or present with a value.  After a successful
\* delete(id) the id and the unique-field values of the deleted record are
\* free again: a create with the same id, or a create of another id carrying
\* the deleted record's unique value, is refused only on account of the
\* records that are still present; nothing of the deleted record remains.
C39_DeleteFrees ==
    (last.op = "delete" /\ Succeeded) =>
        /\ ~HasId(Stored, last.arg)
        /\ Stored = Without(last.before, last.arg)
        /\ \A obj \in Objs :
              create_op(spec, Stored, obj).raised
                  => RefusedBy(Without(last.before, last.arg), obj)

\* C39 witness: a delete succeeded, and both a create of the deleted id and a
\* create of another id with a unique value the deleted record held, refused
\* on the rows before the delete, succeed on the rows after it.
C39_Witness ==
    /\ last.op = "delete"
    /\ Succeeded
    /\ \E obj \in Objs :
          /\ obj.id = last.arg
          /\ ~create_op(spec, Stored, obj).raised
    /\ \E obj \in Objs :
          /\ obj.id # last.arg
          /\ AnyConflict(last.before, obj)
          /\ create_op(spec, last.before, obj).raised
          /\ ~create_op(spec, Stored, obj).raised

\* ================================ two processes on one db_path: lock and file
\* Each process has its own Env, hence its own TinyDB handle with its own
\* CachingMiddleware cache; both name the same db_path and the same lock_path.
\* The repository is the user repository; the records written are two.
ProcObjs ==
    { [id |-> 1, name |-> <<"A", "b">>, email |-> None],
      [id |-> 2, name |-> <<"c">>, email |-> <<"e">>] }

ProcIds == {1, 2}

\* The text of the file is a sequence of tokens: an opening brace, three
\* tokens per document (one per field, in the order of the fields), a closing
\* brace.
Brace(b) == [k |-> b]
Token(k, v) == [k |-> k, v |-> v]

FieldAt(i) == IF i % 3 = 1 THEN "id" ELSE IF i % 3 = 2 THEN "name" ELSE "email"

\* json.dumps(data): the serialized tables
json_text(rows) ==
    << Brace("{") >>
        \o [i \in 1..(3 * Len(rows)) |->
              Token(FieldAt(i), json_dumps(rows)[(i + 2) \div 3][FieldAt(i)])]
        \o << Brace("}") >>

\* json.load accepts the text
WellFormed(text) ==
    /\ Len(text) >= 2
    /\ (Len(text) - 2) % 3 = 0
    /\ text[1] = Brace("{")
    /\ text[Len(text)] = Brace("}")
    /\ \A i \in 2..(Len(text) - 1) : text[i].k = FieldAt(i - 1)

\* json.load(handle) of a well-formed text
json_load(text) ==
    json_loads([d \in 1..((Len(text) - 2) \div 3) |->
                  [f \in Fields |->
                      text[1 + 3 * (d - 1) + (CASE f = "id" -> 1 [] f = "name" -> 2
                                               [] OTHER -> 3)].v]])

\* CachingMiddleware.read() / JSONStorage.read() and Table._read_table: the
\* cache when it is set; else the file, which is kept as the cache unless it
\* is empty; json.load raises on a malformed text.
CacheRead(cache, text) ==
    IF cache.loaded THEN [error |-> FALSE, cache |-> cache, rows |-> cache.rows]
    ELSE IF text = <<>> THEN [error |-> FALSE, cache |-> NoCache, rows |-> <<>>]
    ELSE IF WellFormed(text)
         THEN [error |-> FALSE, cache |-> Loaded(json_load(text)), rows |-> json_load(text)]
         ELSE [error |-> TRUE, cache |-> NoCache, rows |-> <<>>]

db_error == <<"db_error:", "JSONDecodeError">>

\* the rows in the file, for the record of what an operation could have read
OnFile(text) ==
    IF text = <<>> THEN [ok |-> TRUE, rows |-> <<>>]
    ELSE IF WellFormed(text) THEN [ok |-> TRUE, rows |-> json_load(text)]
    ELSE [ok |-> FALSE, rows |-> <<>>]

\* faulty variant: every operation runs with write = True
MutatingOps_EveryOp == {"create", "delete", "get"}

\* the operations whose _op is run by _run(spec, True, _op)
MutatingOps == {"create", "delete"}

\* the _op closure of the call
ProcOp(op, rows, arg) ==
    CASE op = "create" -> create_op(USER_SPEC, rows, arg)
      [] op = "delete" -> delete_op(USER_SPEC, rows, arg)
      [] OTHER -> get_op(USER_SPEC, rows, arg)

\* faulty variant: no lock is taken although a lock_path is configured
_with_lock_Never(env_lock_path) == "Noop"

\* _with_lock(env): a FileLock on env.lock_path when it is set, else a no-op
_with_lock(env_lock_path) == IF env_lock_path THEN "FileLock" ELSE "Noop"

\* X.<op>_flow(arg)(env) is called in process p: ensure_env, _table
Call(p, op, arg) ==
    /\ proc[p].pc = "idle"
    /\ proc' = [proc EXCEPT ![p].pc = "called", ![p].op = op, ![p].arg = Arg(op, arg)]
    /\ UNCHANGED <<lock_path, lock, disk, repo_vars, api_vars>>

\* with _with_lock(env): __enter__ (a FileLock blocks until the lock is free)
Acquire(p) ==
    /\ proc[p].pc = "called"
    /\ proc[p].op \in MutatingOps
    /\ IF _with_lock(lock_path) = "FileLock"
       THEN lock = NoProc /\ lock' = p
       ELSE lock' = lock
    /\ proc' = [proc EXCEPT ![p].pc = "locked"]
    /\ UNCHANGED <<lock_path, disk, repo_vars, api_vars>>

\* out = op(env, tbl) of a mutating operation.  The table is read through
\* the cache; a return leaves the new table in the cache, a raise leaves the
\* with block (delete's remove has written the cache before the raise).
RunOp(p) ==
    LET read == CacheRead(proc[p].cache, disk)
        r == ProcOp(proc[p].op, read.rows, ArgOf(proc[p]))
        ghost == [ran_on |-> read.rows, on_file |-> OnFile(disk)]
    IN  /\ proc[p].pc = "locked"
        /\ proc' = [proc EXCEPT ![p] =
              IF read.error
              THEN [@ EXCEPT !.pc = "raised",
                              !.result = Held(proc[p].op, IOFailure(db_error))]
              ELSE IF r.raised
                   THEN [@ EXCEPT !.pc = "raised",
                                  !.result = Held(proc[p].op, RunResult(r)),
                                  !.ghost = ghost,
                                  !.cache = IF proc[p].op = "delete"
                                            THEN Loaded(r.rows) ELSE read.cache]
                   ELSE [@ EXCEPT !.pc = "modified",
                                  !.result = Held(proc[p].op, RunResult(r)),
                                  !.ghost = ghost, !.cache = Loaded(r.rows)]]
        /\ UNCHANGED <<lock_path, lock, disk, repo_vars, api_vars>>

\* env.db.storage.flush(): JSONStorage.write of the whole cache
Flush(p) ==
    /\ proc[p].pc = "modified"
    /\ disk' = json_text(proc[p].cache.rows)
    /\ proc' = [proc EXCEPT ![p].pc = "flushed"]
    /\ UNCHANGED <<lock_path, lock, repo_vars, api_vars>>

\* faulty variant: the lock is released after the flush only, a raise leaves
\* it held
Release_AfterFlushOnly(p) ==
    /\ proc[p].pc \in {"flushed", "raised"}
    /\ lock' = IF lock = p /\ proc[p].pc = "flushed" THEN NoProc ELSE lock
    /\ proc' = [proc EXCEPT ![p].pc = "done"]
    /\ UNCHANGED <<lock_path, disk, repo_vars, api_vars>>

\* the with block is left (after the flush, or by the raise): __exit__
Release(p) ==
    /\ proc[p].pc \in {"flushed", "raised"}
    /\ lock' = IF lock = p THEN NoProc ELSE lock
    /\ proc' = [proc EXCEPT ![p].pc = "done"]
    /\ UNCHANGED <<lock_path, disk, repo_vars, api_vars>>

\* a read operation: op(env, tbl) without a lock
ReadOp(p) ==
    LET read == CacheRead(proc[p].cache, disk)
        r == ProcOp(proc[p].op, read.rows, ArgOf(proc[p]))
    IN  /\ proc[p].pc = "called"
        /\ proc[p].op \notin MutatingOps
        /\ proc' = [proc EXCEPT ![p] =
              [@ EXCEPT !.pc = "done",
                        !.result = Held(proc[p].op,
                                       IF read.error THEN IOFailure(db_error)
                                       ELSE RunResult(r)),
                        !.cache = read.cache,
                        !.ghost = [ran_on |-> read.rows, on_file |-> OnFile(disk),
                                   from_file |-> ~proc[p].cache.loaded,
                                   text |-> disk,
                                   writes |-> { proc[q].ghost : q \in
                                       { w \in Procs : proc[w].pc = "writing" } }]]]
        /\ UNCHANGED <<lock_path, lock, disk, repo_vars, api_vars>>

\* the flow returns its IOResult to the caller in process p
ProcReturned(p) ==
    /\ proc[p].pc = "done"
    /\ proc' = [proc EXCEPT ![p] = [IdleProc EXCEPT !.cache = proc[p].cache]]
    /\ UNCHANGED <<lock_path, lock, disk, repo_vars, api_vars>>

CallCreate == \E p \in Procs, obj \in ProcObjs : Call(p, "create", obj)
CallDelete == \E p \in Procs, id \in ProcIds : Call(p, "delete", id)
CallGet == \E p \in Procs, id \in ProcIds : Call(p, "get", id)
Acquires == \E p \in Procs : Acquire(p)
RunsOp == \E p \in Procs : RunOp(p)
Flushes == \E p \in Procs : Flush(p)
Releases == \E p \in Procs : Release(p)
Reads == \E p \in Procs : ReadOp(p)
Returns == \E p \in Procs : ProcReturned(p)

\* Both environments are built with a lock_path, or both without.
InitLock == RepoInit /\ ApiInit /\ lock_path \in BOOLEAN /\ ProcInit

NextLock ==
    CallCreate \/ CallDelete \/ CallGet \/ Acquires \/ RunsOp \/ Flushes
        \/ Releases \/ Reads \/ Returns

SpecLock == InitLock /\ [][NextLock]_vars

\* the process is inside the modify-and-flush section of a mutating operation
InSection(p) == proc[p].pc \in {"locked", "modified", "flushed", "raised"}

\* C17: with a lock_path configured, a process that is inside the section of
\* a mutating operation (from before it inspects the table until after its
\* flush has completed) holds the exclusive lock, so that two processes are
\* never inside it together; without a lock_path no lock is ever taken.
C17_WriteLock ==
    /\ lock_path =>
          /\ \A p \in Procs : InSection(p) => lock = p
          /\ \A p, q \in Procs : (InSection(p) /\ InSection(q)) => p = q
    /\ ~lock_path => lock = NoProc

\* with a lock_path, one process has modified its table and not yet flushed
\* while the other has called a mutating flow and waits for the lock
C17_Witness ==
    /\ lock_path
    /\ proc["A"].pc = "modified"
    /\ lock = "A"
    /\ proc["B"].pc = "called"
    /\ proc["B"].op \in MutatingOps

\* C18: every operation works on the store as currently written in the
\* backing file: the rows an operation has inspected (for its id_exists,
\* not_found and uniqueness checks) are the rows the file held when it ran,
\* whichever environment or process wrote them.
C18_WorksOnFile ==
    \A p \in Procs :
        (proc[p].ghost # NoGhost /\ proc[p].ghost.on_file.ok) =>
            proc[p].ghost.ran_on = proc[p].ghost.on_file.rows

\* ------------------------------------------------ C34: reads take no lock
\* the operations run by _run(spec, False, _op)
ReadOps == {"get"}

\* C34: a process in a read operation never holds the lock.  Whoever holds
\* the lock, a read can be called and, once called, can run to its result;
\* and a writer that has called finds the lock free, and can take it,
\* whenever no writer holds it, whatever the readers are doing.
C34_ReadsTakeNoLock ==
    \A p \in Procs :
        /\ proc[p].op \in ReadOps => lock # p
        /\ proc[p].pc = "idle" => ENABLED Call(p, "get", 1)
        /\ (proc[p].pc = "called" /\ proc[p].op \in ReadOps) => ENABLED ReadOp(p)
        /\ (/\ proc[p].pc = "called"
            /\ proc[p].op \in {"create", "delete"}
            /\ \A q \in Procs \ {p} : ~InSection(q))
              => ENABLED Acquire(p)

\* one process holds the lock, its table modified and not yet flushed; the
\* other has called a get, which can complete
C34_Witness ==
    /\ lock_path
    /\ lock = "A"
    /\ proc["A"].pc = "modified"
    /\ proc["B"].pc = "called"
    /\ proc["B"].op \in ReadOps
    /\ ENABLED ReadOp("B")

\* ------------------------------------------- C35: the lock is always released
\* Two writers on one db_path and lock_path.  The file is empty at first, or
\* holds a text json.load rejects (what an interrupted write can leave), so
\* that every mutating operation ends in db_error.
Malformed == << Brace("{") >>

LiveObjs == ProcObjs \cup { [id |-> 2, name |-> <<"A", "B">>, email |-> None] }

InitLive ==
    /\ RepoInit /\ ApiInit
    /\ lock_path = TRUE
    /\ lock = NoProc
    /\ disk \in { <<>>, Malformed }
    /\ proc = [p \in Procs |-> IdleProc]

LiveCreate == \E p \in Procs, obj \in LiveObjs : Call(p, "create", obj)

NextLive ==
    LiveCreate \/ CallDelete \/ Acquires \/ RunsOp \/ Flushes \/ Releases \/ Returns

\* Each step of an operation that has the lock is taken in the end (the
\* operation terminates).  FileLock.acquire retries until it has the lock, so
\* a writer that finds the lock free again and again takes it in the end.
LiveFairness ==
    \A p \in Procs :
        /\ WF_vars(RunOp(p)) /\ WF_vars(Flush(p)) /\ WF_vars(Release(p))
        /\ SF_vars(Acquire(p))

SpecLive == InitLive /\ [][NextLive]_vars /\ LiveFairness

\* the mutating operation of p has ended or not yet taken the lock
OutOfSection(p) == proc[p].pc \in {"idle", "called", "done"}

Waiting(p) == proc[p].pc = "called" /\ proc[p].op \in MutatingOps

TargetId(pr) == IF pr.op = "create" THEN pr.arg.entity.id ELSE pr.arg.id

InRows(rows, r) == \E i \in DOMAIN rows : rows[i] = r

\* process p completes the flush of a successful mutating operation on another
\* id than that of the record process q has just created, which the file
\* holds
FlushesBeside(p, q) ==
    /\ lock_path
    /\ proc[p].pc = "modified" /\ proc'[p].pc = "flushed"
    /\ proc[q].pc = "done" /\ proc[q].op = "create"
    /\ proc[q].result.tag = "IOSuccess"
    /\ TargetId(proc[p]) # proc[q].arg.entity.id
    /\ InRows(OnFile(disk).rows, proc[q].arg.entity)

\* C36: with two environments on one db_path and lock_path, a record created
\* successfully through one of them and not deleted is still in the file
\* after a later successful mutating operation of the other on another id.
C36_NoLostUpdate ==
    [][\A p, q \in Procs :
          (p # q /\ FlushesBeside(p, q)) =>
              InRows(OnFile(disk').rows, proc[q].arg.entity)]_vars

\* ===================================== the write of the file, step by step
\* JSONStorage.write(data): handle.seek(0), handle.write(serialized),
\* flush, fsync, handle.truncate().  The text goes into the file in place,
\* over the old text, a piece at a time; the old text beyond the new one is
\* cut off by the final truncate.  The writer is process A, the reader B.
Writer == "A"
Reader == "B"

\* handle.seek(0): the write starts; old and new record the text of the file
\* before the write and the text being written
FlushBegin(p) ==
    /\ proc[p].pc = "modified"
    /\ proc' = [proc EXCEPT ![p].pc = "writing", ![p].written = 0,
                            ![p].ghost = [old |-> disk,
                                          new |-> json_text(proc[p].cache.rows)]]
    /\ UNCHANGED <<lock_path, lock, disk, repo_vars, api_vars>>

\* the next piece of the serialized text reaches the file
WriteChunk(p) ==
    LET new == json_text(proc[p].cache.rows)
        k == proc[p].written + 1
    IN  /\ proc[p].pc = "writing"
        /\ k <= Len(new)
        /\ disk' = [i \in 1..(IF Len(disk) > k THEN Len(disk) ELSE k) |->
                      IF i = k THEN new[i] ELSE disk[i]]
        /\ proc' = [proc EXCEPT ![p].written = k]
        /\ UNCHANGED <<lock_path, lock, repo_vars, api_vars>>

\* handle.truncate() at the end of the new text: the write is complete
Truncate(p) ==
    /\ proc[p].pc = "writing"
    /\ proc[p].written = Len(json_text(proc[p].cache.rows))
    /\ disk' = SubSeq(disk, 1, proc[p].written)
    /\ proc' = [proc EXCEPT ![p].pc = "flushed", ![p].written = 0]
    /\ UNCHANGED <<lock_path, lock, repo_vars, api_vars>>

\* the writing process is killed during the write: its lock is released by
\* the system, the file stays as it is
Crash(p) ==
    /\ proc[p].pc = "writing"
    /\ lock' = IF lock = p THEN NoProc ELSE lock
    /\ proc' = [proc EXCEPT ![p].pc = "crashed"]
    /\ UNCHANGED <<lock_path, disk, repo_vars, api_vars>>

WriterCalls ==
    \/ \E obj \in ProcObjs : Call(Writer, "create", obj)
    \/ \E id \in ProcIds : Call(Writer, "delete", id)
ReaderCalls == \E id \in ProcIds : Call(Reader, "get", id)
WriterAcquires == Acquire(Writer)
WriterRunsOp == RunOp(Writer)
WriterBegins == FlushBegin(Writer)
WriterWrites == WriteChunk(Writer)
WriterTruncates == Truncate(Writer)
WriterCrashes == Crash(Writer)
WriterReleases == Release(Writer)
ReaderReads == ReadOp(Reader)

NextFile ==
    WriterCalls \/ ReaderCalls \/ WriterAcquires \/ WriterRunsOp \/ WriterBegins
        \/ WriterWrites \/ WriterTruncates \/ WriterCrashes \/ WriterReleases
        \/ ReaderReads \/ Returns

SpecFile == InitLock /\ [][NextFile]_vars

\* C15: a read operation of another process that reads the file while a
\* mutating operation is writing it finds the complete text from before the
\* write or the complete text being written, never a partly written file.
C15_WholeFileRead ==
    \A p \in Procs :
        (proc[p].pc = "done" /\ proc[p].op \notin MutatingOps
            /\ proc[p].ghost # NoGhost /\ proc[p].ghost.from_file) =>
            \A w \in proc[p].ghost.writes : proc[p].ghost.text \in {w.old, w.new}

\* C16: when the write of the file is interrupted by a crash, the file holds
\* the complete old text or the complete new text, never a mixture or a
\* truncated text.
C16_WholeFileAfterCrash ==
    \A p \in Procs :
        proc[p].pc = "crashed" => disk \in {proc[p].ghost.old, proc[p].ghost.new}

\* ======================================= DataAPI: the catalogue of products
\* Products with a sku, a price and a version, and the systems that list
\* them.  PRODUCT_SPEC (example_project/repositories.py) with the adapter of
\* these fields:
CATALOG_SPEC ==
    [table_name |-> "products", unique |-> << UniqueRule("sku", FALSE, TRUE) >>,
     validator |-> None, adapter |-> ProductFields]

\* Product.version: Optional[str]; load_system_from_yaml gives a product
\* whose archive name carries no version the version ""
Versions == { None, <<>>, <<"1">> }

Prices == { 0, 5 }

CatalogObjs == [id : Ids, sku : { <<"a">>, <<"b">> }, price : Prices, version : Versions]

\* DataAPI.create_product, on the catalogue's products
create_catalog_product(db, product) ==
    RepoWrite(db, "products", create_op(CATALOG_SPEC, db.products, product))

get_product(db, product_id) ==
    RunResult(get_op(CATALOG_SPEC, db.products, product_id))

get_system_by_name(db, name) ==
    RunResult(get_by_op(SYSTEM_SPEC, db.systems, "name", name, TRUE))

RECURSIVE _collect_SkipMissing(_, _, _, _)
\* faulty variant: a missing product is left out of the list
_collect_SkipMissing(db, product_ids, k, result) ==
    IF k > Len(product_ids) THEN result
    ELSE LET p == get_product(db, product_ids[k])
         IN  _collect_SkipMissing(db, product_ids, k + 1,
                IF p.tag = "IOFailure" THEN result
                ELSE IOSuccess(Append(result.value, p.value)))

RECURSIVE _collect(_, _, _, _)
\* for pid in system.product_ids, from index k on:
\*     result = result.bind(lambda acc: self.get_product(pid).map(lambda p: acc + [p]))
_collect(db, product_ids, k, result) ==
    IF k > Len(product_ids) THEN result
    ELSE LET p == get_product(db, product_ids[k])
         IN  _collect(db, product_ids, k + 1,
                IF result.tag = "IOFailure" THEN result
                ELSE IF p.tag = "IOFailure" THEN p
                ELSE IOSuccess(Append(result.value, p.value)))

get_products_for_system(db, system_name) ==
    LET got == get_system_by_name(db, system_name)
    IN  IF got.tag = "IOFailure" THEN got
        ELSE _collect(db, got.value.product_ids, 1, IOSuccess(<<>>))

list_product_skus_prices_for_system(db, system_name) ==
    LET products == get_products_for_system(db, system_name)
    IN  IF products.tag = "IOFailure" THEN products
        ELSE IOSuccess([i \in DOMAIN products.value |->
                           <<products.value[i].sku, products.value[i].price>>])

\* {p.version for p in products if p.version}
list_product_versions(db) ==
    LET products == RunResult(list_op(CATALOG_SPEC, db.products))
    IN  IF products.tag = "IOFailure" THEN products
        ELSE IOSuccess({ products.value[i].version :
                            i \in { j \in DOMAIN products.value :
                                      truthy(products.value[j].version) } })

\* faulty variant: the overrides are applied to a product of the default
\* field values instead of the stored product
update_product_update_FromDefaults(db, product, fields) ==
    RepoWrite(db, "products",
              update_op(CATALOG_SPEC, db.products,
                        replace([id |-> product.id, sku |-> product.sku,
                                 price |-> 0, version |-> None], fields)))

\* _update(product), bound to the success of get_product
update_product_update(db, product, fields) ==
    RepoWrite(db, "products",
              update_op(CATALOG_SPEC, db.products, replace(product, fields)))

update_product(db, product_id, fields) ==
    LET got == get_product(db, product_id)
    IN  IF got.tag = "IOFailure" THEN ApiOut(got, db, FALSE)
        ELSE update_product_update(db, got.value, fields)

\* ------------------------------- example_project/yaml_loader.py, config_loader.py
\* What a loader leaves after the records before index k: the tables, the
\* results so far, and whether a call has flushed.
Loading(db, results, flushed) == [db |-> db, results |-> results, flushed |-> flushed]

Attempted(l, out) ==
    Loading(out.db, Append(l.results, out.result), l.flushed \/ out.flushed)

RECURSIVE load_products_loop_StopAtFailure(_, _, _)
\* faulty variant: the loop ends at the first record whose create fails
load_products_loop_StopAtFailure(data, k, l) ==
    IF k > Len(data) THEN l
    ELSE LET out == create_catalog_product(l.db, data[k])
         IN  IF out.result.tag = "IOFailure" THEN Attempted(l, out)
             ELSE load_products_loop_StopAtFailure(data, k + 1, Attempted(l, out))

RECURSIVE load_products_loop(_, _, _)
\* for item in data: results.append(api.create_product(Product(**item)))
load_products_loop(data, k, l) ==
    IF k > Len(data) THEN l
    ELSE load_products_loop(data, k + 1,
                            Attempted(l, create_catalog_product(l.db, data[k])))

\* load_products_from_yaml(path, api), data being the records of the file
load_products_from_yaml(db, data) ==
    LET l == load_products_loop(data, 1, Loading(db, <<>>, FALSE))
    IN  ApiOut(l.results, l.db, l.flushed)

\* update_product(product_id, **fields): the keyword overrides
ProductOverrides ==
    [price : Prices] \cup [sku : { <<"a">>, <<"b">> }] \cup [version : { <<"1">> }]
        \cup [id : Ids, sku : { <<"b">> }]

RECURSIVE load_config_loop(_, _, _)
\* for item in data.get("products", []):
\*     res_list.append(api.update_product(item["id"], **extra))
load_config_loop(data, k, l) ==
    IF k > Len(data) THEN l
    ELSE load_config_loop(data, k + 1,
                          Attempted(l, update_product(l.db, data[k].id, data[k].extra)))

\* load_config_from_yaml(path, api) of a file with a products section only:
\* a section without records has no entry in the returned mapping
load_config_from_yaml(db, data) ==
    LET l == load_config_loop(data, 1, Loading(db, <<>>, FALSE))
    IN  ApiOut(IF l.results = <<>> THEN [s \in {} |-> <<>>]
               ELSE [s \in {"products"} |-> l.results],
               l.db, l.flushed)

\* the files loaded: at most two records.  Two records of a products file
\* may carry the same id or the same sku.
ListsOf(S) == { <<>> } \cup { <<x>> : x \in S } \cup { <<x, y>> : x, y \in S }

FileProducts == [id : Ids, sku : { <<"a">>, <<"b">> }, price : {5}, version : { <<"1">> }]

ProductFiles == ListsOf(FileProducts)

ConfigFiles == ListsOf([id : Ids, extra : [price : {0}]])

\* the system names looked up: a stored name in its own and in another case,
\* and a name no system has
SystemLookups == { <<"A", "b">>, <<"a", "B">>, <<"c">> }

\* the systems of the catalogue: one system, with each list of product ids
CatalogSystems == [id : {1}, name : { <<"A", "b">> }, product_ids : RefLists]

CatalogRead(op, arg, result) == ApiCall(op, arg, ApiOut(result, api_db, FALSE))

CreateCatalogProduct ==
    \E product \in CatalogObjs :
        ApiCall("create_product", product, create_catalog_product(api_db, product))

GetProductsForSystem ==
    \E name \in SystemLookups :
        CatalogRead("get_products_for_system", name,
                    get_products_for_system(api_db, name))

ListProductSkusPricesForSystem ==
    \E name \in SystemLookups :
        CatalogRead("list_product_skus_prices_for_system", name,
                    list_product_skus_prices_for_system(api_db, name))

ListProductVersions ==
    CatalogRead("list_product_versions", NoId, list_product_versions(api_db))

UpdateProduct ==
    \E product_id \in Ids, fields \in ProductOverrides :
        ApiCall("update_product", [product_id |-> product_id, fields |-> fields],
                update_product(api_db, product_id, fields))

CreateCatalogSystem ==
    \E system \in CatalogSystems :
        ApiCall("create_system", system, create_system(api_db, system))

LoadProducts ==
    \E data \in ProductFiles :
        ApiCall("load_products_from_yaml", data, load_products_from_yaml(api_db, data))

LoadConfig ==
    \E data \in ConfigFiles :
        ApiCall("load_config_from_yaml", data, load_config_from_yaml(api_db, data))

NextCatalog ==
    CreateCatalogProduct \/ DeleteProduct \/ CreateCatalogSystem \/ GetProductsForSystem
        \/ ListProductSkusPricesForSystem \/ ListProductVersions \/ UpdateProduct
        \/ ApiReturned

SpecCatalog == InitData /\ [][NextCatalog]_vars

\* load_system_from_yaml(path, api): the system files loaded name at most
\* two product archives, whose file names carry a version
SystemFiles == [id : {1, 2}, name : { <<"A", "b">> }, products : ProductFiles]

\* load_system_from_yaml is entered: every product of the file is attempted
\* and its id listed, whatever its result; create_system is then entered
\* with the system built from the file, its loop at the first product id
BeginLoadSystem ==
    \E data \in SystemFiles :
        LET l == load_products_loop(data.products, 1, Loading(api_db, <<>>, FALSE))
            product_ids == [k \in DOMAIN data.products |-> data.products[k].id]
            system == [id |-> data.id, name |-> data.name, product_ids |-> product_ids]
        IN  /\ api_last.op = "idle"
            /\ api_pc = NoCall
            /\ api_db' = l.db
            /\ api_file' = IF l.flushed THEN ApiFlushed(l.db)
                           ELSE [exists |-> TRUE, text |-> api_file.text]
            /\ api_pc' = Position("load_system_from_yaml",
                                  [data |-> data, product_results |-> l.results],
                                  system, 1)
            /\ UNCHANGED <<api_last, repo_vars, proc_vars>>

\* update_system(system_id, product_ids=[...]) of a loaded system
UpdateLoadedSystem ==
    \E system_id \in {1, 2}, fields \in [product_ids : RefLists] :
        update_system_entered(system_id, fields)

\* The loaders on one environment, files being loaded one after the other,
\* and create_system / update_system flow by flow.
NextLoad ==
    LoadProducts \/ LoadConfig \/ BeginLoadSystem \/ UpdateLoadedSystem
        \/ CheckProduct \/ WriteSystem \/ ApiReturned

SpecLoad == InitData /\ [][NextLoad]_vars

\* --------------------------------------------------------------------- C22
\* the stored product of an id
ProductOf(db, pid) ==
    db.products[CHOOSE i \in DOMAIN db.products : db.products[i].id = pid]

\* the products a system name resolves to: the first system whose name
\* equals the name up to case, each of its product ids dereferenced in order
ProductsOfSystem(db, name) ==
    LET hits == { i \in DOMAIN db.systems : lower(db.systems[i].name) = lower(name) }
        ids == db.systems[CHOOSE i \in hits : \A j \in hits : i <= j].product_ids
    IN  IF hits = {} THEN IOFailure(not_found)
        ELSE IF MissingRef(db, ids) THEN IOFailure(not_found)
        ELSE IOSuccess([k \in DOMAIN ids |-> ProductOf(db, ids[k])])

\* C22: get_products_for_system(name) finds the system by case-insensitive
\* name and returns its products in the order of its product_ids (a repeated
\* id yields a repeated product); it returns not_found if the system is
\* absent or as soon as one referenced product is absent, and
\* list_product_skus_prices_for_system returns the (sku, price) pairs of that
\* same list.
C22_ProductsForSystem ==
    LET expected == ProductsOfSystem(api_last.before, api_last.arg)
    IN  /\ api_last.op = "get_products_for_system" =>
              SameResult(api_last.result, expected)
        /\ api_last.op = "list_product_skus_prices_for_system" =>
              /\ api_last.result.tag = expected.tag
              /\ expected.tag = "IOFailure" => api_last.result.value = not_found
              /\ expected.tag = "IOSuccess" =>
                    /\ Len(api_last.result.value) = Len(expected.value)
                    /\ \A k \in DOMAIN expected.value :
                          api_last.result.value[k]
                            = <<expected.value[k].sku, expected.value[k].price>>

\* a system listing one product twice is looked up by its name in another
\* case, and the product is returned twice
C22_Witness ==
    /\ api_last.op = "get_products_for_system"
    /\ \A i \in DOMAIN api_last.before.systems :
          api_last.before.systems[i].name # api_last.arg
    /\ api_last.result.tag = "IOSuccess"
    /\ Len(api_last.result.value) = 2
    /\ api_last.result.value[1] = api_last.result.value[2]

\* --------------------------------------------------------------------- C23
\* C23: list_product_versions returns exactly the set of distinct non-null
\* version values among the stored products: every stored product whose
\* version is not null contributes its version, and nothing else is in the
\* set.
C23_ProductVersions ==
    api_last.op = "list_product_versions" =>
        /\ api_last.result.tag = "IOSuccess"
        /\ api_last.result.value
             = { api_last.before.products[i].version :
                    i \in { j \in DOMAIN api_last.before.products :
                              api_last.before.products[j].version # None } }

\* --------------------------------------------------------------------- C24
\* rows with the record of the id replaced by the record, the others and
\* every position kept
WithRecord(rows, id, record) ==
    [i \in DOMAIN rows |-> IF rows[i].id = id THEN record ELSE rows[i]]

\* C24, as stated: update_user / update_product / update_product_group(id,
\* overrides) return not_found without writing when no record has that id;
\* otherwise the stored record becomes the existing record with exactly the
\* named fields overridden and every other field kept, and that new value is
\* returned.
C24_UpdateEntity ==
    api_last.op = "update_product" =>
        LET db == api_last.before
            id == api_last.arg.product_id
        IN  IF ~HasProduct(db, id)
            THEN /\ ApiFailedWith(not_found)
                 /\ api_db = db
            ELSE LET new == Overridden(ProductOf(db, id), api_last.arg.fields)
                 IN  /\ SameResult(api_last.result, IOSuccess(new))
                     /\ api_db.products = WithRecord(db.products, id, new)

\* another stored product than the one written holds the sku
SkuTaken(db, new) ==
    \E i \in DOMAIN db.products :
        db.products[i].id # new.id /\ db.products[i].sku = new.sku

\* C24, amended: the overridden record is persisted through update, which
\* answers for the id the overridden record carries: not_found when no
\* record has the given id, or none has the overridden id; unique_violation
\* when another record holds the overridden record's unique value; in each
\* of these cases nothing is written.  Otherwise the record of the
\* overridden id becomes the existing record with exactly the named fields
\* overridden and every other field kept, and that value is returned.
C24_UpdateEntityValidated ==
    api_last.op = "update_product" =>
        LET db == api_last.before
            id == api_last.arg.product_id
        IN  IF ~HasProduct(db, id)
            THEN /\ ApiFailedWith(not_found)
                 /\ api_db = db
            ELSE LET old == ProductOf(db, id)
                     new == Overridden(old, api_last.arg.fields)
                 IN  IF ~HasProduct(db, new.id)
                     THEN ApiFailedWith(not_found) /\ api_db = db
                     ELSE IF SkuTaken(db, new)
                     THEN ApiFailedWith(<<"unique_violation:", "sku">>) /\ api_db = db
                     ELSE /\ SameResult(api_last.result, IOSuccess(new))
                          /\ api_db.products = WithRecord(db.products, new.id, new)
                          /\ api_db.systems = db.systems
                          /\ \A f \in ProductFields \ DOMAIN api_last.arg.fields :
                                api_last.result.value[f] = old[f]
                          /\ json_loads(api_file.text.products) = api_db.products

\* the price of a product with a version is overridden: the stored record
\* has the new price and the version it had
C24_Witness ==
    /\ api_last.op = "update_product"
    /\ DOMAIN api_last.arg.fields = {"price"}
    /\ api_last.result.tag = "IOSuccess"
    /\ api_last.result.value.version = <<"1">>
    /\ ProductOf(api_last.before, api_last.arg.product_id).price
         # api_last.arg.fields.price
    /\ ProductOf(api_db, api_last.arg.product_id) = api_last.result.value

\* --------------------------------------------------------------------- C25
\* the products stored when record k of a products file is attempted: those
\* stored before the load, then the records before k whose result is a
\* success, in file order
RECURSIVE StoredAt(_, _, _, _)
StoredAt(rows, data, results, k) ==
    IF k = 1 THEN rows
    ELSE LET earlier == StoredAt(rows, data, results, k - 1)
         IN  IF results[k - 1].tag = "IOSuccess" THEN Append(earlier, data[k - 1])
             ELSE earlier

\* one result per record of a products file, in file order: a record
\* succeeds exactly when its id and its sku are new among the products
\* stored when it is attempted, whatever happened to the records before it
EveryRecordAttempted ==
    LET data == api_last.arg
        results == api_last.result
    IN  /\ Len(results) = Len(data)
        /\ \A k \in DOMAIN data :
              LET rows == StoredAt(api_last.before.products, data, results, k)
              IN  IF \E i \in DOMAIN rows : rows[i].id = data[k].id
                  THEN SameResult(results[k], IOFailure(id_exists))
                  ELSE IF \E i \in DOMAIN rows : rows[i].sku = data[k].sku
                  THEN SameResult(results[k], IOFailure(<<"unique_violation:", "sku">>))
                  ELSE SameResult(results[k], IOSuccess(data[k]))
        /\ api_db.products
             = StoredAt(api_last.before.products, data, results, Len(data) + 1)
        /\ api_db.systems = api_last.before.systems

\* one result per record of a config file's products section, in file order
EveryUpdateAttempted ==
    LET data == api_last.arg
        results == api_last.result
    IN  /\ data = <<>> => DOMAIN results = {}
        /\ data # <<>> =>
              /\ DOMAIN results = {"products"}
              /\ Len(results.products) = Len(data)
              /\ \A k \in DOMAIN data :
                    IF HasProduct(api_last.before, data[k].id)
                    THEN /\ results.products[k].tag = "IOSuccess"
                         /\ results.products[k].value.id = data[k].id
                         /\ results.products[k].value.price = data[k].extra.price
                    ELSE SameResult(results.products[k], IOFailure(not_found))

ProductsKept ==
    api_last.op = "load_system_from_yaml" =>
        /\ \A k \in DOMAIN api_last.arg.data.products :
              api_last.arg.product_results[k].tag = "IOSuccess" =>
                  /\ \E i \in DOMAIN api_db.products :
                        api_db.products[i] = api_last.arg.data.products[k]
                  /\ \E i \in DOMAIN api_file.text.products :
                        json_loads(api_file.text.products)[i]
                          = api_last.arg.data.products[k]
        /\ api_last.result.tag = "IOFailure" =>
              /\ api_db = api_last.before
              /\ \/ api_last.result.value = missing_product
                 \/ api_last.result.value = id_exists
                 \/ api_last.result.value = <<"unique_violation:", "name">>

\* the loop of a call in progress has passed only stored products
ChecksPassed ==
    api_pc # NoCall =>
        \A j \in DOMAIN api_pc.system.product_ids :
            j < api_pc.k => HasProduct(api_db, api_pc.system.product_ids[j])

\* the step of a call whose loop is at a product that is not stored: the
\* call returns missing_product, without a further check and without a write
EndsAtMissing ==
    (/\ api_pc # NoCall
     /\ api_pc.k <= Len(api_pc.system.product_ids)
     /\ ~HasProduct(api_db, api_pc.system.product_ids[api_pc.k]))
    => /\ api_pc' = NoCall
       /\ api_last'.op = api_pc.op
       /\ api_last'.result = IOFailure(missing_product)
       /\ api_db' = api_db
       /\ api_file'.text = api_file.text

\* C26: a composite operation stops at its first failing sub-step and rolls
\* nothing back: when the create_system step of load_system_from_yaml fails
\* (missing_product, id_exists or unique_violation:name), the products it
\* created earlier in the same call remain stored, and create_system /
\* update_system perform no further existence checks and no system write
\* after the first missing product.
C26_NoRollback == [][EndsAtMissing /\ ChecksPassed' /\ ProductsKept']_vars

\* load_system_from_yaml has created a product and then failed in
\* create_system with missing_product; the product is stored
C26_Witness ==
    /\ api_last.op = "load_system_from_yaml"
    /\ api_last.result.tag = "IOFailure"
    /\ api_last.result.value = missing_product
    /\ api_last.arg.product_results[1].tag = "IOSuccess"
    /\ HasProduct(api_db, api_last.arg.data.products[1].id)
    /\ api_db.systems = <<>>

\* ================================= DataAPI: creates and updates, no delete
\* The caller drives the environment through the DataAPI only: create_product,
\* update_product, create_system and update_system, each update with keyword
\* overrides that may name the id field.
ListedProducts == [id : Ids, sku : { <<"a">>, <<"b">> }, price : {0}, version : {None}]

ListingIds == {1, 2}
ListingSystems == [id : ListingIds, name : SysNames, product_ids : RefLists]

ListedOverrides ==
    [sku : { <<"a">>, <<"b">> }] \cup [id : Ids] \cup [id : Ids, sku : { <<"b">> }]

ListingOverrides ==
    [product_ids : RefLists] \cup [id : ListingIds]
        \cup [id : ListingIds, name : SysNames]

CreateListedProduct ==
    \E product \in ListedProducts :
        ApiCall("create_product", product, create_catalog_product(api_db, product))

UpdateListedProduct ==
    \E product_id \in Ids, fields \in ListedOverrides :
        ApiCall("update_product", [product_id |-> product_id, fields |-> fields],
                update_product(api_db, product_id, fields))

CreateListingSystem ==
    \E system \in ListingSystems :
        ApiCall("create_system", system, create_system(api_db, system))

UpdateListingSystem ==
    \E system_id \in ListingIds, fields \in ListingOverrides :
        ApiCall("update_system", [system_id |-> system_id, fields |-> fields],
                update_system(api_db, system_id, fields))

NextApi ==
    CreateListedProduct \/ UpdateListedProduct \/ CreateListingSystem
        \/ UpdateListingSystem \/ ApiReturned

SpecApi == InitData /\ [][NextApi]_vars

\* the tables as the file holds them
PersistedDb == [t \in DOMAIN api_file.text |-> json_loads(api_file.text[t])]

\* C32: in an environment driven only through create_product, update_product,
\* create_system and update_system, whatever the overrides, every product id
\* listed by a System of the handle or of the file is the id of a stored
\* Product.
C32_ReferencesResolve == ~Dangling(api_db) /\ ~Dangling(PersistedDb)

\* an update_product that overrides the id has succeeded while a persisted
\* system lists both that id and the id the call was given
C32_Witness ==
    /\ api_last.op = "update_product"
    /\ api_last.result.tag = "IOSuccess"
    /\ "id" \in DOMAIN api_last.arg.fields
    /\ api_last.arg.fields.id # api_last.arg.product_id
    /\ \E i \in DOMAIN PersistedDb.systems :
          /\ Lists(PersistedDb.systems[i], api_last.arg.product_id)
          /\ Lists(PersistedDb.systems[i], api_last.arg.fields.id)

\* -------------------------------------------- C38: the frame of an update
\* the stored products other than the one of the given id are what they were
OthersKept(before, now, id) ==
    /\ Len(now) = Len(before)
    /\ \A i \in DOMAIN before : before[i].id # id => now[i] = before[i]

\* C38: update_product(id, overrides) changes no stored record other than
\* the one whose id is the given id, for any overrides, an override of the id
\* field included.
C38_UpdateFrame ==
    api_last.op = "update_product" =>
        /\ OthersKept(api_last.before.products, api_db.products,
                      api_last.arg.product_id)
        /\ api_db.systems = api_last.before.systems

\* ------------------------------------------- C40: one table per collection
ProductOps == {"create_product", "Products.delete"}
SystemOps == {"create_system", "get_system", "update_system"}

\* a create on rows under the rule is refused for its own rows alone
OwnRowsRefuse(rows, rule, obj) == HasId(rows, obj.id) \/ Conflict(rows, rule, obj)

ApiFailed == api_last.result.tag = "IOFailure"

\* C40: an operation on one collection never changes the records of another
\* collection, and its id and uniqueness checks consider only the rows of its
\* own collection: the same id or the same unique-field value may be stored
\* in two collections.
C40_CollectionsApart ==
    /\ api_last.op \in ProductOps => api_db.systems = api_last.before.systems
    /\ api_last.op \in SystemOps => api_db.products = api_last.before.products
    /\ api_last.op = "create_product" =>
          (ApiFailed <=> OwnRowsRefuse(api_last.before.products,
                                       PRODUCT_SPEC.unique[1], api_last.arg))
    /\ (api_last.op = "create_system"
            /\ ProductsExist(api_last.before, api_last.arg.product_ids, 1).tag
                  = "IOSuccess") =>
          (ApiFailed <=> OwnRowsRefuse(api_last.before.systems,
                                       SYSTEM_SPEC.unique[1], api_last.arg))

\* C40 witness: a system was created under the id and the name of a stored
\* product, and both are stored.
C40_Witness ==
    /\ api_last.op = "create_system"
    /\ api_last.result.tag = "IOSuccess"
    /\ \E i \in DOMAIN api_db.products :
          /\ api_db.products[i].id = api_last.arg.id
          /\ api_db.products[i].name = api_last.arg.name
    /\ HasId(api_db.systems, api_last.arg.id)

====
